---- MODULE Spec2Model ----
(***************************************************************************)
(* Verification model of InterviewSpark's core (src-tauri/src):           *)
(*   - rig_adapter/state_machine.rs  InterviewStateMachine                 *)
(*   - rig_adapter/scheduler.rs      AgentScheduler                        *)
(*   - lib.rs                        multi_agent_* commands                *)
(*   - api/dedup.rs                  RequestDeduplicator                   *)
(*   - api/retry.rs                  RetryPolicy                           *)
(*   - rag/service.rs                RagService lazy initialization        *)
(*   - rag/vectordb.rs               VectorStore                           *)
(*   - rig_adapter/agents/tech.rs    TechInterviewer::generate_question    *)
(*   - rig_adapter/agents/*.rs       analyze_answer of the three agents    *)
(*   - rag/import.rs                 import_from_json, import_from_txt     *)
(*   - analysis/cache_manager.rs     GenericCache                          *)
(* Each component has its own next-state relation and specification; all   *)
(* of them start from the same initial state (the state after              *)
(* construction of every object).                                          *)
(***************************************************************************)
EXTENDS Integers, Sequences, FiniteSets, TLC

VARIABLES
    \* InterviewStateMachine (state_machine.rs:28-33)
    state_machine,
    \* history of state-machine calls: has maybe_advance been called, how many
    \* record_question calls were made, the last call and its score
    sm_maybe_called, sm_record_calls, sm_last,
    \* AgentScheduler.current_index (scheduler.rs:10)
    current_index,
    \* InterviewContext.conversation_history (agents/mod.rs:55)
    conversation_history,
    \* history of the commands issued on the session: the last command,
    \* whether it returned Ok, whether the commands alternated so far
    last_cmd, last_ok, alternating,
    \* AppState.multi_agent_sessions (lib.rs:94): the ids of the sessions in
    \* the map
    multi_agent_sessions,
    \* RequestDeduplicator.pending (dedup.rs:13): key -> result cell, and the
    \* cells: the Option<Result> in each Mutex and the holder of the Mutex
    pending, cell_result, cell_owner, next_cell,
    \* one deduplicate call per caller: position, key, cell (result_lock),
    \* returned value
    dd_pc, dd_key, dd_cell, dd_ret,
    \* history of the deduplicate calls: executions of f per cell, the
    \* executions in flight when a caller registered, whether a caller ran f
    exec_count, dd_during, dd_ran,
    \* RetryPolicy::execute: the policy (self), the position in the loop and
    \* the locals attempts and delay (retry.rs:47-48), the returned value
    rt_policy, rt_pc, rt_attempts, rt_delay, rt_result,
    \* history of one execute call: invocations of the operation, whether
    \* all of them failed, the sleeps made, the errors the operation returned
    rt_invocations, rt_all_failed, rt_sleeps, rt_errors,
    \* RagService (service.rs:26-32): init_failed, the OnceCell internals
    \* (0 = empty, else the attempt that set it) and the holder of its permit
    init_failed, internals, permit,
    \* the model loads started with spawn_blocking, by attempt
    loads, next_attempt,
    \* one ensure_initialized call per caller: position and attempt it runs
    rag_pc, rag_attempt,
    \* history of the calls: the attempt running when the caller arrived, the
    \* attempt whose result it returned, whether an attempt had failed before
    \* the call started, whether any attempt has failed
    rag_during, rag_from, rag_after_fail, any_failed,
    \* VectorStore (vectordb.rs:21-24): the rows of table knowledge_vectors
    \* behind `conn`, the last rowid given out, the Option<Hnsw> behind `index`
    knowledge_vectors, last_rowid, hnsw_index,
    \* one build_index call: position, the locals `embeddings` and `hnsw`
    bi_pc, embeddings, hnsw,
    \* one search call: position, arguments, the local `neighbors`, the
    \* returned results or error
    se_pc, se_args, neighbors, se_results, se_err,
    \* history of the store: has build_index been called, the ids inserted
    \* since the last build_index call, and that set as it was when the search
    \* read the rows
    build_called, fresh, se_fresh,
    \* one call of TechInterviewer::generate_question or of the command
    \* generate_questions: position, what the call meets (adapter, client,
    \* knowledge base, retrieval, upstream outcome), the returned value with
    \* the retrieved context that went into the prompt
    dg_pc, dg_call, dg_result,
    \* one analyze_answer call of an agent: position, the agent's role with
    \* what the upstream call yields, the returned value
    an_pc, an_call, an_result,
    \* an AgentScheduler on its own (scheduler.rs:8-12): the roles of its
    \* agents, current_index, rotation_strategy; and the phase given to
    \* select_by_phase when that was the last operation on it
    scheduler, sch_selected,
    \* one import_from_json / import_from_txt call: the file it is given, the
    \* position, the index of the next record, the locals success_count,
    \* fail_count and errors with the line numbers handed to embed_and_store,
    \* the returned value
    im_file, im_pc, im_idx, im_acc, im_result,
    \* a GenericCache (cache_manager.rs:33-38): the map with default_ttl, hits
    \* and misses; SystemTime::now() in ticks; per key the most recent set
    \* not followed by invalidate or clear, with its time and TTL; the key and
    \* the returned value of the last call if it was a get
    generic_cache, now, ca_sets, ca_got

smVars == <<state_machine, sm_maybe_called, sm_record_calls, sm_last>>
sessionVars == <<current_index, conversation_history, last_cmd, last_ok, alternating,
                 multi_agent_sessions>>
dedupVars == <<pending, cell_result, cell_owner, next_cell, dd_pc, dd_key, dd_cell,
               dd_ret, exec_count, dd_during, dd_ran>>
retryVars == <<rt_policy, rt_pc, rt_attempts, rt_delay, rt_result, rt_invocations,
               rt_all_failed, rt_sleeps, rt_errors>>
vectorVars == <<knowledge_vectors, last_rowid, hnsw_index, bi_pc, embeddings, hnsw, se_pc,
                se_args, neighbors, se_results, se_err, build_called, fresh, se_fresh>>
degradeVars == <<dg_pc, dg_call, dg_result>>
analyzeVars == <<an_pc, an_call, an_result>>
schedulerVars == <<scheduler, sch_selected>>
importVars == <<im_file, im_pc, im_idx, im_acc, im_result>>
cacheVars == <<generic_cache, now, ca_sets, ca_got>>
ragVars == <<init_failed, internals, permit, loads, next_attempt, rag_pc, rag_attempt,
             rag_during, rag_from, rag_after_fail, any_failed>>

----------------------------------------------------------------------------
(* Bounds                                                                  *)

\* cap on total_question_count (a u32 in the code)
MaxQuestions == 20
\* cap on the length of conversation_history
MaxTurns == 3
\* cap on total_question_count in a session
MaxSubmits == 6
\* number of concurrent deduplicate callers
NumCallers == 2
\* cap on the number of result cells ever created by deduplicate
MaxCells == 2
\* cap on the number of executions whose caller is dropped
MaxCancels == 1
\* largest max_retries of the policies tried
MaxRetries == 3
\* number of concurrent RagService callers
NumRagCallers == 2
\* cap on the number of initialization attempts started
MaxAttempts == 3
\* rows ever inserted into the vector store
MaxEntries == 2
\* largest top_k passed to search
MaxTopK == 2
\* results returned by a retrieval
MaxHits == 2
\* largest number of agents given to a scheduler
MaxAgents == 3
\* largest number of lines or items of an imported file
MaxLines == 3
\* largest TTL given to the cache, in ticks
MaxTtl == 2
\* ticks of the clock the cache is watched for
MaxTime == 3
\* cap on hits + misses of the cache
MaxGets == 2

----------------------------------------------------------------------------
(* Interview phase state machine: rig_adapter/state_machine.rs             *)

InterviewPhase == {"WarmUp", "Technical", "Behavioral", "Business", "Questions", "Completed"}
InterviewerRole == {"Technical", "HR", "Business"}

\* position of a phase in the declaration order of the enum
PhaseOrd(p) ==
    CASE p = "WarmUp" -> 0
      [] p = "Technical" -> 1
      [] p = "Behavioral" -> 2
      [] p = "Business" -> 3
      [] p = "Questions" -> 4
      [] p = "Completed" -> 5

\* default_configs() with one more question allowed in the Technical phase
default_configs_long ==
    << [phase |-> "WarmUp",     min_questions |-> 1, max_questions |-> 2, primary_role |-> "HR"],
       [phase |-> "Technical",  min_questions |-> 3, max_questions |-> 6, primary_role |-> "Technical"],
       [phase |-> "Behavioral", min_questions |-> 2, max_questions |-> 3, primary_role |-> "HR"],
       [phase |-> "Business",   min_questions |-> 2, max_questions |-> 3, primary_role |-> "Business"],
       [phase |-> "Questions",  min_questions |-> 1, max_questions |-> 2, primary_role |-> "HR"] >>

\* default_configs(): one PhaseConfig per phase except Completed
default_configs ==
    << [phase |-> "WarmUp",     min_questions |-> 1, max_questions |-> 2, primary_role |-> "HR"],
       [phase |-> "Technical",  min_questions |-> 3, max_questions |-> 5, primary_role |-> "Technical"],
       [phase |-> "Behavioral", min_questions |-> 2, max_questions |-> 3, primary_role |-> "HR"],
       [phase |-> "Business",   min_questions |-> 2, max_questions |-> 3, primary_role |-> "Business"],
       [phase |-> "Questions",  min_questions |-> 1, max_questions |-> 2, primary_role |-> "HR"] >>

\* phase_configs.iter().find(|c| c.phase == phase): the index of the first
\* matching config, 0 when there is none (the `?` then returns None)
find_config(configs, phase) ==
    LET hits == {i \in 1..Len(configs) : configs[i].phase = phase}
    IN IF hits = {} THEN 0 ELSE CHOOSE i \in hits : \A j \in hits : i <= j

\* InterviewStateMachine::new()
sm_new ==
    [current_phase |-> "WarmUp", phase_question_count |-> 0,
     total_question_count |-> 0, phase_configs |-> default_configs]

\* a slip in the match: the Technical arm jumps over Behavioral
next_phase_skip(p) ==
    CASE p = "WarmUp" -> "Technical"
      [] p = "Technical" -> "Business"
      [] p = "Behavioral" -> "Business"
      [] p = "Business" -> "Questions"
      [] p = "Questions" -> "Completed"
      [] p = "Completed" -> "Completed"

\* the `match self.current_phase` of advance_phase
next_phase(p) ==
    CASE p = "WarmUp" -> "Technical"
      [] p = "Technical" -> "Behavioral"
      [] p = "Behavioral" -> "Business"
      [] p = "Business" -> "Questions"
      [] p = "Questions" -> "Completed"
      [] p = "Completed" -> "Completed"

\* advance_phase() without the reset of the counter
advance_phase_keep_count(sm) ==
    [sm EXCEPT !.current_phase = next_phase(sm.current_phase)]

\* advance_phase(): the counter is reset before the match, so also in Completed
advance_phase(sm) ==
    [sm EXCEPT !.phase_question_count = 0,
               !.current_phase = next_phase(sm.current_phase)]

\* the test written with > instead of >=
reached_max_late(count, config) == count > config.max_questions

\* the forced-advance test of record_question
reached_max(count, config) == count >= config.max_questions

\* record_question(): both counters are incremented first; without a config
\* for the phase the function returns; at max_questions the phase advances
record_question(sm) ==
    LET inc == [sm EXCEPT !.phase_question_count = @ + 1,
                          !.total_question_count = @ + 1]
        i == find_config(inc.phase_configs, inc.current_phase)
    IN IF i = 0 THEN inc
       ELSE IF reached_max(inc.phase_question_count, inc.phase_configs[i])
            THEN advance_phase(inc)
            ELSE inc

\* the test written with > instead of >=
excellent_strict(score) == score > 80

\* the quality test of maybe_advance; scores are in tenths (8.0 is 80)
excellent(score) == score >= 80

\* maybe_advance without the min_questions condition
maybe_advance_no_min(sm, score) ==
    LET i == find_config(sm.phase_configs, sm.current_phase)
    IN IF i = 0 THEN sm
       ELSE IF excellent(score) THEN advance_phase(sm) ELSE sm

\* maybe_advance(analysis)
maybe_advance(sm, score) ==
    LET i == find_config(sm.phase_configs, sm.current_phase)
    IN IF i = 0 THEN sm
       ELSE IF sm.phase_question_count >= sm.phase_configs[i].min_questions
               /\ excellent(score)
            THEN advance_phase(sm)
            ELSE sm

\* analysis.score values (tenths): 1.0, 7.9, 8.0, 10.0
Scores == {10, 79, 80, 100}
\* the scores the upstream analysis returns in a session: 7.9 and 8.0
SessionScores == {79, 80}

\* a call of record_question on the state machine
RecordQuestion ==
    /\ state_machine.total_question_count < MaxQuestions
    /\ state_machine' = record_question(state_machine)
    /\ sm_record_calls' = sm_record_calls + 1
    /\ sm_last' = [op |-> "record", score |-> 0]
    /\ UNCHANGED sm_maybe_called

\* a call of maybe_advance on the state machine
MaybeAdvance(score) ==
    /\ state_machine' = maybe_advance(state_machine, score)
    /\ sm_maybe_called' = TRUE
    /\ sm_last' = [op |-> "maybe", score |-> score]
    /\ UNCHANGED sm_record_calls

----------------------------------------------------------------------------
(* Agent scheduler: rig_adapter/scheduler.rs, and the session of lib.rs    *)

\* MultiAgentSession::new(): agents = vec![tech, hr, business]; each entry is
\* the agent's role()
agents == <<"Technical", "HR", "Business">>

\* candidate answers; 0 stands for None in answer and analysis
Answers == {1, 2}
None == 0
\* the outcome of an upstream call (generate_question, analyze_answer) that
\* returned Err
UpstreamError == -1

\* the id start_multi_agent_interview gave the session
session_id == "ma-1"

\* the match with the WarmUp arm sending the Technical interviewer
target_role_tech_first(phase) ==
    CASE phase = "WarmUp" -> "Technical"
      [] phase = "Technical" -> "Technical"
      [] phase = "Behavioral" -> "HR"
      [] phase = "Business" -> "Business"
      [] phase = "Questions" -> "HR"
      [] phase = "Completed" -> "HR"

\* the `match phase` of select_by_phase
target_role(phase) ==
    CASE phase = "WarmUp" -> "HR"
      [] phase = "Technical" -> "Technical"
      [] phase = "Behavioral" -> "HR"
      [] phase = "Business" -> "Business"
      [] phase = "Questions" -> "HR"
      [] phase = "Completed" -> "HR"

\* select_by_phase with the position counted from one
select_by_phase_one_based(ags, phase) ==
    LET hits == {i \in 1..Len(ags) : ags[i] = target_role(phase)}
    IN IF hits = {} THEN 0
       ELSE (CHOOSE i \in hits : \A j \in hits : i <= j) % Len(ags)

\* select_by_phase(): position of the first agent with the target role,
\* unwrap_or(0); indices are 0-based as in the code
select_by_phase(ags, phase) ==
    LET hits == {i \in 1..Len(ags) : ags[i] = target_role(phase)}
    IN IF hits = {} THEN 0
       ELSE (CHOOSE i \in hits : \A j \in hits : i <= j) - 1

\* current_agent().role()
current_agent(ags, index) == ags[index + 1]

\* execute_turn with the turn pushed before the result of generate_question
\* is looked at
execute_turn_eager(history, index, phase, ok) ==
    Append(history, [role |-> current_agent(agents, index),
                     question |-> Len(history) + 1,
                     answer |-> None, analysis |-> None, phase |-> phase])

\* execute_turn(): generate_question fails -> Err and no push; otherwise a
\* turn without answer and analysis is pushed.  The question text is named
\* by the number of the turn it was generated for.  `phase` is not a field
\* of ConversationTurn: it records the state machine's phase at creation.
execute_turn(history, index, phase, ok) ==
    IF ok
    THEN Append(history, [role |-> current_agent(agents, index),
                          question |-> Len(history) + 1,
                          answer |-> None, analysis |-> None, phase |-> phase])
    ELSE history

\* process_answer(): Err when the history is empty; the answer is written to
\* the last turn before analyze_answer is awaited; the analysis is written
\* when analyze_answer succeeded.  outcome is UpstreamError or the score of
\* the analysis.
process_answer(history, answer, outcome) ==
    IF history = << >>
    THEN [history |-> history, ok |-> FALSE, error |-> "No conversation turn"]
    ELSE LET n == Len(history)
             answered == [history EXCEPT ![n].answer = answer]
         IN IF outcome = UpstreamError
            THEN [history |-> answered, ok |-> FALSE, error |-> "upstream"]
            ELSE [history |-> [answered EXCEPT ![n].analysis = outcome],
                  ok |-> TRUE, error |-> "none"]

\* the history of commands: the commands alternate, starting with
\* multi_agent_next_question
Alternates(cmd) ==
    /\ last_cmd' = cmd
    /\ alternating' = (alternating /\ cmd # last_cmd /\ (last_cmd = "none" => cmd = "next"))

\* multi_agent_next_question (lib.rs): "Session not found" when the id is
\* not in the map; otherwise select_by_phase, then execute_turn
multi_agent_next_question(ok) ==
    /\ Len(conversation_history) < MaxTurns
    /\ IF session_id \in multi_agent_sessions
       THEN /\ current_index' = select_by_phase(agents, state_machine.current_phase)
            /\ conversation_history' =
                  execute_turn(conversation_history, current_index',
                               state_machine.current_phase, ok)
            /\ last_ok' = ok
       ELSE /\ last_ok' = FALSE
            /\ UNCHANGED <<current_index, conversation_history>>
    /\ Alternates("next")
    /\ UNCHANGED <<smVars, multi_agent_sessions>>

\* the state machine updated whether or not process_answer succeeded
after_answer_always(sm, ok, outcome) ==
    IF ok THEN maybe_advance(record_question(sm), outcome) ELSE record_question(sm)

\* the state machine after `process_answer(..).await?`: record_question and
\* maybe_advance run only when process_answer returned Ok
after_answer(sm, ok, outcome) ==
    IF ok THEN maybe_advance(record_question(sm), outcome) ELSE sm

\* multi_agent_submit_answer (lib.rs): "Session not found" when the id is
\* not in the map; otherwise process_answer and, on Ok, record_question
\* followed by maybe_advance
multi_agent_submit_answer(answer, outcome) ==
    LET pa == process_answer(conversation_history, answer, outcome)
    IN /\ state_machine.total_question_count < MaxSubmits
       /\ IF session_id \in multi_agent_sessions
          THEN /\ conversation_history' = pa.history
               /\ state_machine' = after_answer(state_machine, pa.ok, outcome)
               /\ IF pa.ok
                  THEN /\ sm_record_calls' = sm_record_calls + 1
                       /\ sm_maybe_called' = TRUE
                       /\ sm_last' = [op |-> "maybe", score |-> outcome]
                  ELSE UNCHANGED <<sm_maybe_called, sm_record_calls, sm_last>>
               /\ last_ok' = pa.ok
          ELSE /\ last_ok' = FALSE
               /\ UNCHANGED <<smVars, conversation_history>>
       /\ Alternates("submit")
       /\ UNCHANGED <<current_index, multi_agent_sessions>>

\* multi_agent_end_session (lib.rs): the session is removed from the map
multi_agent_end_session ==
    /\ multi_agent_sessions' = multi_agent_sessions \ {session_id}
    /\ last_cmd' = "end"
    /\ last_ok' = TRUE
    /\ UNCHANGED <<smVars, current_index, conversation_history, alternating>>

----------------------------------------------------------------------------
(* Request deduplicator: api/dedup.rs                                      *)

Callers == 1..NumCallers
Keys == {"A", "B"}
Cells == 1..MaxCells
NoCell == 0
NoCaller == 0
\* the values f can produce (Result<String, String>); "none" is Option::None
Results == {"Ok_r", "Err_e"}

\* the check left out: every caller that gets the lock runs f
has_result_never(r) == FALSE

\* `if let Some(result) = result_guard.as_ref()`
has_result(r) == r # "none"

\* the executions of f in flight for key k
InFlight(k) == {dd_cell[x] : x \in {y \in Callers : dd_pc[y] = "executing" /\ dd_key[y] = k}}

\* a map that holds one entry for all keys
pending_get_any(pend, k) ==
    IF \E j \in Keys : pend[j] # NoCell
    THEN pend[CHOOSE j \in Keys : pend[j] # NoCell]
    ELSE NoCell

\* `pending.get(&key)`
pending_get(pend, k) == pend[k]

\* deduplicate, lines 33-47: under the write lock of the map, take the cell
\* of the key or insert a new one
Register(c, k) ==
    /\ dd_pc[c] = "idle"
    /\ IF pending_get(pending, k) # NoCell
       THEN /\ dd_cell' = [dd_cell EXCEPT ![c] = pending_get(pending, k)]
            /\ UNCHANGED <<pending, next_cell>>
       ELSE /\ next_cell <= MaxCells
            /\ dd_cell' = [dd_cell EXCEPT ![c] = next_cell]
            /\ pending' = [pending EXCEPT ![k] = next_cell]
            /\ next_cell' = next_cell + 1
    /\ dd_key' = [dd_key EXCEPT ![c] = k]
    /\ dd_pc' = [dd_pc EXCEPT ![c] = "registered"]
    /\ dd_during' = [dd_during EXCEPT ![c] = InFlight(k)]
    /\ dd_ran' = [dd_ran EXCEPT ![c] = FALSE]
    /\ dd_ret' = [dd_ret EXCEPT ![c] = "none"]
    /\ UNCHANGED <<cell_result, cell_owner, exec_count>>

\* deduplicate, lines 50-60: result_lock.lock().await; a cell that holds a
\* result is returned (the guard is dropped), otherwise f is started
Acquire(c) ==
    /\ dd_pc[c] = "registered"
    /\ cell_owner[dd_cell[c]] = NoCaller
    /\ IF has_result(cell_result[dd_cell[c]])
       THEN /\ dd_ret' = [dd_ret EXCEPT ![c] = cell_result[dd_cell[c]]]
            /\ dd_pc' = [dd_pc EXCEPT ![c] = "done"]
            /\ UNCHANGED <<cell_owner, exec_count, dd_ran>>
       ELSE /\ cell_owner' = [cell_owner EXCEPT ![dd_cell[c]] = c]
            /\ exec_count' = [exec_count EXCEPT ![dd_cell[c]] = @ + 1]
            /\ dd_ran' = [dd_ran EXCEPT ![c] = TRUE]
            /\ dd_pc' = [dd_pc EXCEPT ![c] = "executing"]
            /\ UNCHANGED dd_ret
    /\ UNCHANGED <<pending, cell_result, next_cell, dd_key, dd_cell, dd_during>>

\* deduplicate, lines 60-63: f().await completes with r, which is stored in
\* the cell
Finish(c, r) ==
    /\ dd_pc[c] = "executing"
    /\ cell_result' = [cell_result EXCEPT ![dd_cell[c]] = r]
    /\ dd_ret' = [dd_ret EXCEPT ![c] = r]
    /\ dd_pc' = [dd_pc EXCEPT ![c] = "stored"]
    /\ UNCHANGED <<pending, cell_owner, next_cell, dd_key, dd_cell, exec_count,
                   dd_during, dd_ran>>

\* the key left in the map
pending_remove_never(pend, k) == pend

\* `pending.remove(&key)`
pending_remove(pend, k) == [pend EXCEPT ![k] = NoCell]

\* the return without the drop of the guard on the cell
Remove_keep_guard(c) ==
    /\ dd_pc[c] = "stored"
    /\ pending' = pending_remove(pending, dd_key[c])
    /\ dd_pc' = [dd_pc EXCEPT ![c] = "done"]
    /\ UNCHANGED <<cell_result, cell_owner, next_cell, dd_key, dd_cell, dd_ret,
                   exec_count, dd_during, dd_ran>>

\* deduplicate, lines 66-70: the key is removed under the write lock, the
\* result is returned and the guard dropped
Remove(c) ==
    /\ dd_pc[c] = "stored"
    /\ pending' = pending_remove(pending, dd_key[c])
    /\ cell_owner' = [cell_owner EXCEPT ![dd_cell[c]] = NoCaller]
    /\ dd_pc' = [dd_pc EXCEPT ![c] = "done"]
    /\ UNCHANGED <<cell_result, next_cell, dd_key, dd_cell, dd_ret, exec_count,
                   dd_during, dd_ran>>

RECURSIVE SumExec(_)
SumExec(n) == IF n = 0 THEN 0 ELSE exec_count[n] + SumExec(n - 1)

\* executions that were started and neither finished nor are still running:
\* the ones whose caller was dropped
dropped ==
    SumExec(MaxCells)
       - Cardinality({i \in Cells : cell_result[i] # "none"})
       - Cardinality({c \in Callers : dd_pc[c] = "executing"})

\* a drop that leaves the cell locked
Cancel_keep_guard(c) ==
    /\ dd_pc[c] \in {"registered", "executing"}
    /\ dd_pc[c] = "executing" => dropped < MaxCancels
    /\ dd_pc' = [dd_pc EXCEPT ![c] = "idle"]
    /\ dd_during' = [dd_during EXCEPT ![c] = {}]
    /\ dd_key' = [dd_key EXCEPT ![c] = "A"]
    /\ dd_cell' = [dd_cell EXCEPT ![c] = NoCell]
    /\ dd_ret' = [dd_ret EXCEPT ![c] = "none"]
    /\ dd_ran' = [dd_ran EXCEPT ![c] = FALSE]
    /\ UNCHANGED <<pending, cell_result, cell_owner, next_cell, exec_count>>

\* the future of a deduplicate call is dropped while it waits for the cell
\* (line 50) or while f runs (line 60): its locals are dropped, which
\* releases the cell if it holds it; nothing after the await runs, so the
\* key stays in the map
Cancel(c) ==
    /\ dd_pc[c] \in {"registered", "executing"}
    /\ dd_pc[c] = "executing" => dropped < MaxCancels
    /\ cell_owner' = [i \in Cells |-> IF cell_owner[i] = c THEN NoCaller
                                      ELSE cell_owner[i]]
    /\ dd_pc' = [dd_pc EXCEPT ![c] = "idle"]
    /\ dd_during' = [dd_during EXCEPT ![c] = {}]
    /\ dd_key' = [dd_key EXCEPT ![c] = "A"]
    /\ dd_cell' = [dd_cell EXCEPT ![c] = NoCell]
    /\ dd_ret' = [dd_ret EXCEPT ![c] = "none"]
    /\ dd_ran' = [dd_ran EXCEPT ![c] = FALSE]
    /\ UNCHANGED <<pending, cell_result, next_cell, exec_count>>

\* clear(): every key is removed from the map under the write lock
Clear ==
    /\ pending' = [k \in Keys |-> NoCell]
    /\ UNCHANGED <<cell_result, cell_owner, next_cell, dd_pc, dd_key, dd_cell, dd_ret,
                   exec_count, dd_during, dd_ran>>

\* the caller has its result and may call deduplicate again
Return(c) ==
    /\ dd_pc[c] = "done"
    /\ dd_pc' = [dd_pc EXCEPT ![c] = "idle"]
    /\ dd_during' = [dd_during EXCEPT ![c] = {}]
    /\ dd_key' = [dd_key EXCEPT ![c] = "A"]
    /\ dd_cell' = [dd_cell EXCEPT ![c] = NoCell]
    /\ dd_ret' = [dd_ret EXCEPT ![c] = "none"]
    /\ dd_ran' = [dd_ran EXCEPT ![c] = FALSE]
    /\ UNCHANGED <<pending, cell_result, cell_owner, next_cell, exec_count>>

----------------------------------------------------------------------------
(* Retry policy: api/retry.rs                                              *)

\* RetryPolicy::default(); backoff_multiplier is in tenths (2.0 is 20)
default_policy ==
    [max_retries |-> 3, initial_delay_ms |-> 1000, backoff_multiplier |-> 20,
     max_delay_ms |-> 10000]

\* the policies execute is tried with; the multipliers 0.5, 1.0, 1.5 and 2.0
\* are exact in f64
Policies ==
    [max_retries : 0..MaxRetries, initial_delay_ms : {0, 3, 1000},
     backoff_multiplier : {5, 10, 15, 20}, max_delay_ms : {0, 4, 10000}]

\* the test made one failure too early
exhausted_early(attempts, max_retries) == attempts + 1 >= max_retries

\* the test written with > instead of >=
exhausted_late(attempts, max_retries) == attempts > max_retries

\* `if attempts >= self.max_retries`
exhausted(attempts, max_retries) == attempts >= max_retries

\* the errors an operation returns, named by the text is_retryable looks for
\* in the message; "unauthorized" has none of them
Errors == {"timeout", "503", "unauthorized"}

\* is_retryable(error): the lowercased message contains one of these
is_retryable(error) ==
    error \in {"timeout", "connection", "network", "500", "502", "503", "504"}

\* the Err arm returning at once on an error that is not retryable
should_return_classified(attempts, max_retries, err) ==
    exhausted(attempts, max_retries) \/ ~is_retryable(err)

\* the Err(err) arm of the match: whether execute returns Err(err) now
should_return(attempts, max_retries, err) == exhausted(attempts, max_retries)

\* lines 68-69: ((delay as f64) * multiplier) as u64, then min(max_delay_ms);
\* the cast truncates towards zero and maps negative values to 0
next_delay(delay, policy) ==
    LET product == delay * policy.backoff_multiplier
        cast == IF product < 0 THEN 0 ELSE product \div 10
    IN IF cast < policy.max_delay_ms THEN cast ELSE policy.max_delay_ms

\* execute is called on a policy: attempts = 0, delay = initial_delay_ms
Execute(policy) ==
    /\ rt_pc = "idle"
    /\ rt_policy' = policy
    /\ rt_attempts' = 0
    /\ rt_delay' = policy.initial_delay_ms
    /\ rt_pc' = "calling"
    /\ rt_invocations' = 0
    /\ rt_all_failed' = TRUE
    /\ rt_sleeps' = << >>
    /\ rt_errors' = {}
    /\ rt_result' = [kind |-> "none", value |-> 0]

\* one iteration of the loop: operation().await returns Ok, or Err with the
\* error of this invocation (errors are numbered by invocation); outcome is
\* "Ok" or the error
Invoke(outcome) ==
    /\ rt_pc = "calling"
    /\ rt_invocations' = rt_invocations + 1
    /\ IF outcome = "Ok"
       THEN /\ rt_result' = [kind |-> "Ok", value |-> rt_invocations']
            /\ rt_pc' = "done"
            /\ rt_all_failed' = FALSE
            /\ UNCHANGED <<rt_attempts, rt_sleeps, rt_errors>>
       ELSE /\ rt_attempts' = rt_attempts + 1
            /\ rt_errors' = rt_errors \cup {outcome}
            /\ UNCHANGED rt_all_failed
            /\ IF should_return(rt_attempts', rt_policy.max_retries, outcome)
               THEN /\ rt_result' = [kind |-> "Err", value |-> rt_invocations']
                    /\ rt_pc' = "done"
                    /\ UNCHANGED rt_sleeps
               ELSE /\ rt_pc' = "sleeping"
                    /\ rt_sleeps' = Append(rt_sleeps, rt_delay)
                    /\ UNCHANGED rt_result
    /\ UNCHANGED <<rt_policy, rt_delay>>

\* the sleep is over: the next delay is computed and the loop repeats
Wake ==
    /\ rt_pc = "sleeping"
    /\ rt_delay' = next_delay(rt_delay, rt_policy)
    /\ rt_pc' = "calling"
    /\ UNCHANGED <<rt_policy, rt_attempts, rt_result, rt_invocations,
                   rt_all_failed, rt_sleeps, rt_errors>>

\* execute has returned; the policy can be used again
Returned ==
    /\ rt_pc = "done"
    /\ rt_pc' = "idle"
    /\ UNCHANGED <<rt_policy, rt_attempts, rt_delay, rt_result, rt_invocations,
                   rt_all_failed, rt_sleeps, rt_errors>>

----------------------------------------------------------------------------
(* RAG service lazy initialization: rag/service.rs                         *)
(* ensure_initialized is the first statement of embed_and_store, of the    *)
(* retrieve_* operations and of rebuild_index.                             *)

RagCallers == 1..NumRagCallers
Attempts == 1..MaxAttempts

\* the attempt whose closure holds the permit of the OnceCell, 0 if none
RunningAttempt == IF permit = NoCaller THEN 0 ELSE rag_attempt[permit]

\* the flag is not looked at
fast_fail_never(failed) == FALSE

\* `if self.init_failed.load(..)`: the fast path of ensure_initialized
fast_fail(failed) == failed

\* ensure_initialized, lines 54-59: Err at once when init_failed is set,
\* otherwise do_init is started under the timeout
EnsureInitialized(c) ==
    /\ rag_pc[c] = "idle"
    /\ rag_pc' = [rag_pc EXCEPT ![c] = IF fast_fail(init_failed) THEN "err" ELSE "waiting"]
    /\ rag_during' = [rag_during EXCEPT ![c] = RunningAttempt]
    /\ rag_after_fail' = [rag_after_fail EXCEPT ![c] = any_failed]
    /\ rag_from' = [rag_from EXCEPT ![c] = 0]
    /\ rag_attempt' = [rag_attempt EXCEPT ![c] = 0]
    /\ UNCHANGED <<init_failed, internals, permit, loads, next_attempt, any_failed>>

\* do_init, get_or_try_init: a set cell is returned; otherwise the caller that
\* gets the permit runs the closure, which starts the model load with
\* spawn_blocking (lines 72-94)
GetOrTryInit(c) ==
    /\ rag_pc[c] = "waiting"
    /\ IF internals # 0
       THEN /\ rag_pc' = [rag_pc EXCEPT ![c] = "ok"]
            /\ rag_from' = [rag_from EXCEPT ![c] = internals]
            /\ UNCHANGED <<permit, loads, next_attempt, rag_attempt>>
       ELSE /\ permit = NoCaller
            /\ next_attempt <= MaxAttempts
            /\ permit' = c
            /\ rag_attempt' = [rag_attempt EXCEPT ![c] = next_attempt]
            /\ loads' = [loads EXCEPT ![next_attempt] = "running"]
            /\ next_attempt' = next_attempt + 1
            /\ rag_pc' = [rag_pc EXCEPT ![c] = "loading"]
            /\ UNCHANGED rag_from
    /\ UNCHANGED <<init_failed, internals, rag_during, rag_after_fail, any_failed>>

\* the closure fails with an error: the permit is released, the cell stays
\* empty and ensure_initialized hands the error on (`Ok(result) => result`),
\* leaving init_failed as it is
AttemptFailed(c) ==
    /\ permit' = NoCaller
    /\ rag_pc' = [rag_pc EXCEPT ![c] = "err"]
    /\ rag_from' = [rag_from EXCEPT ![c] = rag_attempt[c]]
    /\ UNCHANGED init_failed
    /\ any_failed' = TRUE
    /\ UNCHANGED <<internals, next_attempt, rag_attempt, rag_during, rag_after_fail>>

\* the blocking task of the caller's attempt ends (lines 81-95): with the
\* model and the store, or with an error (missing model files, ...)
LoadDone(c, ok) ==
    /\ rag_pc[c] = "loading"
    /\ loads' = [loads EXCEPT ![rag_attempt[c]] = "done"]
    /\ IF ok
       THEN /\ rag_pc' = [rag_pc EXCEPT ![c] = "building"]
            /\ UNCHANGED <<init_failed, internals, permit, next_attempt, rag_attempt,
                           rag_during, rag_from, rag_after_fail, any_failed>>
       ELSE AttemptFailed(c)

\* vector_store.build_index().await (line 98) ends: on Ok the cell is set
\* and the permit released for good, on Err the attempt fails
BuildDone(c, ok) ==
    /\ rag_pc[c] = "building"
    /\ UNCHANGED loads
    /\ IF ok
       THEN /\ internals' = rag_attempt[c]
            /\ permit' = NoCaller
            /\ rag_pc' = [rag_pc EXCEPT ![c] = "ok"]
            /\ rag_from' = [rag_from EXCEPT ![c] = rag_attempt[c]]
            /\ UNCHANGED <<init_failed, next_attempt, rag_attempt, rag_during,
                           rag_after_fail, any_failed>>
       ELSE AttemptFailed(c)

\* ensure_initialized, lines 61-65: the timeout fires while the caller is in
\* do_init; the do_init future is dropped (a held permit is released, a
\* started blocking task keeps running), init_failed is set
Timeout(c) ==
    /\ rag_pc[c] \in {"waiting", "loading", "building"}
    /\ init_failed' = TRUE
    /\ permit' = IF permit = c THEN NoCaller ELSE permit
    /\ rag_pc' = [rag_pc EXCEPT ![c] = "err"]
    /\ rag_from' = [rag_from EXCEPT ![c] = 0]
    /\ any_failed' = TRUE
    /\ UNCHANGED <<internals, loads, next_attempt, rag_attempt, rag_during, rag_after_fail>>

\* a blocking task whose caller timed out runs to its end; the result is dropped
DetachedLoadDone(a) ==
    /\ loads[a] = "running"
    /\ ~ \E c \in RagCallers : rag_pc[c] = "loading" /\ rag_attempt[c] = a
    /\ loads' = [loads EXCEPT ![a] = "done"]
    /\ UNCHANGED <<init_failed, internals, permit, next_attempt, rag_pc, rag_attempt,
                   rag_during, rag_from, rag_after_fail, any_failed>>

\* the operation returns to its caller, which may call again
RagReturn(c) ==
    /\ rag_pc[c] \in {"ok", "err"}
    /\ rag_pc' = [rag_pc EXCEPT ![c] = "idle"]
    /\ rag_after_fail' = [rag_after_fail EXCEPT ![c] = FALSE]
    /\ rag_during' = [rag_during EXCEPT ![c] = 0]
    /\ UNCHANGED <<init_failed, internals, permit, loads, next_attempt, rag_attempt,
                   rag_from, any_failed>>

----------------------------------------------------------------------------
(* Vector store: rag/vectordb.rs                                           *)
(* One build_index call and one search call run concurrently with inserts  *)
(* and deletes. Embeddings are points 0..1 of a line, the distance of the  *)
(* index is the distance on that line.                                     *)

ContentTypes == {"question", "answer"}
Embeddings == {0, 1}
\* the queries: distances are symmetric, one end of the line is enough
QueryEmbeddings == {0}
TopKs == 0..MaxTopK
\* `content_type: Option<&str>` is None
NoFilter == "None"
Ids == 1..MaxEntries

\* VectorStore::new with an index already in place
new_index_built == [built |-> TRUE, points |-> {}]

\* VectorStore::new: `index: Arc::new(Mutex::new(None))`
new_index == [built |-> FALSE, points |-> {}]

\* the `conn` mutex is held across steps by build_index only (line 67 to the
\* return), the `index` mutex by search only (line 125 to the return)
conn_held == bi_pc = "building"
index_held == se_pc = "fetching"

\* DistCosine between a stored embedding and the query
distance(a, b) == IF a >= b THEN a - b ELSE b - a

\* insert adds the new vector to the live index as well
index_after_insert_live(idx, point) ==
    IF idx.built THEN [idx EXCEPT !.points = @ \cup {point}] ELSE idx

\* insert, lines 43-62: only the table is written, the index is not touched
index_after_insert(idx, point) == idx

\* insert: the row gets the next rowid
Insert(ct, e) ==
    /\ ~conn_held
    /\ last_rowid < MaxEntries
    /\ last_rowid' = last_rowid + 1
    /\ knowledge_vectors' = knowledge_vectors \cup
          {[id |-> last_rowid', content_type |-> ct, embedding |-> e]}
    /\ hnsw_index' = index_after_insert(hnsw_index, [id |-> last_rowid', embedding |-> e])
    /\ fresh' = fresh \cup {last_rowid'}
    /\ UNCHANGED <<bi_pc, embeddings, hnsw, se_pc, se_args, neighbors, se_results,
                   se_err, build_called, se_fresh>>

\* delete, lines 168-172: the row is deleted, the index is not touched
Delete(id) ==
    /\ ~conn_held
    /\ id <= last_rowid
    /\ knowledge_vectors' = {r \in knowledge_vectors : r.id # id}
    /\ fresh' = fresh \ {id}
    /\ UNCHANGED <<last_rowid, hnsw_index, bi_pc, embeddings, hnsw, se_pc, se_args,
                   neighbors, se_results, se_err, build_called, se_fresh>>

\* build_index, lines 67-88: takes `conn`, reads every (id, embedding); on an
\* empty table it returns Ok here, without touching the index
BuildStart ==
    /\ bi_pc = "idle"
    /\ build_called' = TRUE
    /\ fresh' = {}
    /\ embeddings' = {[id |-> r.id, embedding |-> r.embedding] : r \in knowledge_vectors}
    /\ bi_pc' = IF embeddings' = {} THEN "done" ELSE "building"
    /\ UNCHANGED <<knowledge_vectors, last_rowid, hnsw_index, hnsw, se_pc, se_args,
                   neighbors, se_results, se_err, se_fresh>>

\* the index is published before the loop has inserted every vector
hnsw_complete_early(h, embs) == TRUE

\* the loop of lines 106-108 has inserted every vector read
hnsw_complete(h, embs) == h = embs

\* build_index, lines 98-108: one hnsw.insert into the local index
BuildInsert ==
    /\ bi_pc = "building"
    /\ embeddings \ hnsw # {}
    /\ LET point == CHOOSE p \in embeddings \ hnsw :
                        \A q \in embeddings \ hnsw : p.id <= q.id
       IN hnsw' = hnsw \cup {point}
    /\ UNCHANGED <<knowledge_vectors, last_rowid, hnsw_index, bi_pc, embeddings, se_pc,
                   se_args, neighbors, se_results, se_err, build_called, fresh,
                   se_fresh>>

\* build_index, lines 110-114: takes `index`, assigns Some(hnsw) and returns,
\* which releases both mutexes
BuildPublish ==
    /\ bi_pc = "building"
    /\ hnsw_complete(hnsw, embeddings)
    /\ ~index_held
    /\ hnsw_index' = [built |-> TRUE, points |-> hnsw]
    /\ bi_pc' = "done"
    /\ UNCHANGED <<knowledge_vectors, last_rowid, embeddings, hnsw, se_pc, se_args,
                   neighbors, se_results, se_err, build_called, fresh, se_fresh>>

\* the caller of build_index has its Ok and may call again
BuildReturn ==
    /\ bi_pc = "done"
    /\ bi_pc' = "idle"
    /\ embeddings' = {}
    /\ hnsw' = {}
    /\ UNCHANGED <<knowledge_vectors, last_rowid, hnsw_index, se_pc, se_args, neighbors,
                   se_results, se_err, build_called, fresh, se_fresh>>

\* hnsw.search(embedding, top_k, ef_search): the top_k nearest points of the
\* index by increasing distance, points at equal distance in any order
hnsw_search(points, e, k) ==
    LET n == IF Cardinality(points) < k THEN Cardinality(points) ELSE k
    IN {s \in [1..n -> points] :
          /\ \A i, j \in 1..n : i < j =>
                /\ s[i] # s[j]
                /\ distance(s[i].embedding, e) <= distance(s[j].embedding, e)
          /\ \A p \in points : (\A i \in 1..n : s[i] # p) =>
                \A i \in 1..n : distance(s[i].embedding, e) <= distance(p.embedding, e)}

\* the WHERE clause of the query without the content_type condition
matches_any(row, id, ct) == row.id = id

\* lines 139-142: `WHERE id = ?1`, and `AND content_type = '<ct>'` when a
\* content type is given
matches(row, id, ct) == row.id = id /\ (ct = NoFilter \/ row.content_type = ct)

\* every neighbor is returned without reading its row
fetch_unchecked(rows, nbs, e, ct) ==
    [i \in 1..Len(nbs) |->
       [id |-> nbs[i].id, content_type |-> ct,
        similarity |-> 1 - distance(nbs[i].embedding, e)]]

\* lines 133-161: one query per neighbor, in order; a neighbor whose query
\* finds no row is skipped; similarity = 1.0 - distance
fetch(rows, nbs, e, ct) ==
    LET found(p) == \E r \in rows : matches(r, p.id, ct)
        kept == SelectSeq(nbs, found)
    IN [i \in 1..Len(kept) |->
          LET row == CHOOSE r \in rows : matches(r, kept[i].id, ct)
          IN [id |-> row.id, content_type |-> row.content_type,
              similarity |-> 1 - distance(kept[i].embedding, e)]]

\* search, lines 125-129: takes `index`; without an index it fails with
\* "Index not built", otherwise it asks the index for top_k neighbors
SearchStart(e, k, ct) ==
    /\ se_pc = "idle"
    /\ se_args' = [embedding |-> e, top_k |-> k, content_type |-> ct]
    /\ IF hnsw_index.built
       THEN /\ neighbors' \in hnsw_search(hnsw_index.points, e, k)
            /\ se_pc' = "fetching"
            /\ UNCHANGED se_err
       ELSE /\ se_err' = "Index not built"
            /\ se_pc' = "done"
            /\ UNCHANGED neighbors
    /\ UNCHANGED <<knowledge_vectors, last_rowid, hnsw_index, bi_pc, embeddings, hnsw,
                   se_results, build_called, fresh, se_fresh>>

\* search, lines 132-163: takes `conn`, reads the rows of the neighbors and
\* returns, which releases both mutexes
SearchFetch ==
    /\ se_pc = "fetching"
    /\ ~conn_held
    /\ se_results' = fetch(knowledge_vectors, neighbors, se_args.embedding,
                           se_args.content_type)
    /\ se_fresh' = fresh
    /\ se_pc' = "done"
    /\ UNCHANGED <<knowledge_vectors, last_rowid, hnsw_index, bi_pc, embeddings, hnsw,
                   se_args, neighbors, se_err, build_called, fresh>>

\* the caller of search has its result and may call again
SearchReturn ==
    /\ se_pc = "done"
    /\ se_pc' = "idle"
    /\ se_args' = [embedding |-> 0, top_k |-> 0, content_type |-> NoFilter]
    /\ neighbors' = << >>
    /\ se_results' = << >>
    /\ se_err' = "none"
    /\ se_fresh' = {}
    /\ UNCHANGED <<knowledge_vectors, last_rowid, hnsw_index, bi_pc, embeddings, hnsw,
                   build_called, fresh>>

----------------------------------------------------------------------------
(* Retrieval as an optional enhancement: rig_adapter/agents/tech.rs,       *)
(* rig_adapter/vector_store.rs, lib.rs generate_questions                  *)
(* A stored content is modelled by its length in bytes.                    *)

ContentLengths == {10, 600}
\* the lists a search can return, at most MaxHits long
Hits == UNION {[1..n -> ContentLengths] : n \in 0..MaxHits}
\* what stands between the caller and a list of hits: the state of the
\* RagService initialization, the embedding of the query, the search
Retrievals ==
    [init : {"ok", "failed", "timeout", "error"}, embed_ok : BOOLEAN,
     search_ok : BOOLEAN, hits : Hits]
Ok(v) == [kind |-> "Ok", value |-> v]
Err(e) == [kind |-> "Err", value |-> e]

\* VectorStoreAdapter::search_by_type: the no-op adapter returns an empty
\* list, the real one embeds the query and searches
search_by_type(adapter, r) ==
    IF adapter = "noop" THEN Ok(<< >>)
    ELSE IF ~r.embed_ok THEN Err("embed")
    ELSE IF ~r.search_ok THEN Err("search")
    ELSE Ok(r.hits)

\* RagService::retrieve_similar_questions: ensure_initialized, embed_text
\* and search, each with `?`
retrieve_similar_questions(r) ==
    IF r.init # "ok" THEN Err(r.init)
    ELSE IF ~r.embed_ok THEN Err("embed")
    ELSE IF ~r.search_ok THEN Err("search")
    ELSE Ok(r.hits)

\* Retriever::build_context: the entries "<n>. <content>\n" are appended until
\* one would make the text longer than max_length; the text is given by the
\* contents it includes
RECURSIVE build_context_from(_, _, _, _)
build_context_from(results, i, current_length, max_length) ==
    IF i > Len(results) THEN << >>
    ELSE LET entry_len == results[i] + 4
         IN IF current_length + entry_len > max_length THEN << >>
            ELSE <<results[i]>> \o
                 build_context_from(results, i + 1, current_length + entry_len, max_length)

build_context(results, max_length) == build_context_from(results, 1, 0, max_length)

\* generate_question with `?` in the place of unwrap_or_default
generate_question_propagating(adapter, r, upstream_ok) ==
    LET rag_context == search_by_type(adapter, r)
    IN IF rag_context.kind = "Err" THEN [kind |-> "Err", context |-> << >>]
       ELSE [kind |-> IF upstream_ok THEN "Ok" ELSE "Err", context |-> rag_context.value]

\* TechInterviewer::generate_question: the search result or, on an error,
\* the empty list goes into the prompt; the result is that of agent.prompt
generate_question(adapter, r, upstream_ok) ==
    LET rag_context == search_by_type(adapter, r)
        rag_questions == IF rag_context.kind = "Ok" THEN rag_context.value ELSE << >>
    IN [kind |-> IF upstream_ok THEN "Ok" ELSE "Err", context |-> rag_questions]

\* generate_questions (lib.rs:143-185): without a client it fails at once;
\* the context is None (here << >>) when the knowledge base is empty, when
\* the retrieval fails and when the built text is empty; the result is that
\* of generate_questions_with_context
generate_questions(client_ok, knowledge_count, r, upstream_ok) ==
    IF ~client_ok THEN [kind |-> "Err", context |-> << >>]
    ELSE LET retrieved == retrieve_similar_questions(r)
             context == IF knowledge_count = 0 \/ retrieved.kind = "Err" THEN << >>
                        ELSE build_context(retrieved.value, 500)
         IN [kind |-> IF upstream_ok THEN "Ok" ELSE "Err", context |-> context]

dg_none == [op |-> "none", adapter |-> "noop", client_ok |-> TRUE, knowledge_count |-> 0,
            retrieval |-> [init |-> "ok", embed_ok |-> TRUE, search_ok |-> TRUE,
                           hits |-> << >>],
            upstream_ok |-> TRUE]

\* TechInterviewer::generate_question is called
CallGenerateQuestion(adapter, r, upstream_ok) ==
    /\ dg_pc = "idle"
    /\ dg_call' = [dg_none EXCEPT !.op = "generate_question", !.adapter = adapter,
                                  !.retrieval = r, !.upstream_ok = upstream_ok]
    /\ dg_pc' = "called"
    /\ UNCHANGED dg_result

\* the generate_questions command is called
CallGenerateQuestions(client_ok, knowledge_count, r, upstream_ok) ==
    /\ dg_pc = "idle"
    /\ dg_call' = [dg_none EXCEPT !.op = "generate_questions", !.client_ok = client_ok,
                                  !.knowledge_count = knowledge_count,
                                  !.retrieval = r, !.upstream_ok = upstream_ok]
    /\ dg_pc' = "called"
    /\ UNCHANGED dg_result

\* the call runs to its end
Complete ==
    /\ dg_pc = "called"
    /\ dg_result' =
          IF dg_call.op = "generate_question"
          THEN generate_question(dg_call.adapter, dg_call.retrieval, dg_call.upstream_ok)
          ELSE generate_questions(dg_call.client_ok, dg_call.knowledge_count,
                                  dg_call.retrieval, dg_call.upstream_ok)
    /\ dg_pc' = "done"
    /\ UNCHANGED dg_call

\* the caller has the result
DgReturn ==
    /\ dg_pc = "done"
    /\ dg_pc' = "idle"
    /\ dg_call' = dg_none
    /\ dg_result' = [kind |-> "none", context |-> << >>]

----------------------------------------------------------------------------
(* Answer analysis of the three agents (tech.rs, hr.rs, business.rs)       *)

\* the four fields of AnalysisResult (agents/mod.rs:71-76), none optional
AnalysisFields == {"score", "strengths", "improvements", "summary"}

\* what the upstream call can yield: an error, or a response text, described
\* by whether it is one JSON value with nothing after it, which of the four
\* fields it has, whether each has the type of its field, and its score
Responses ==
    {[kind |-> "Err"]} \cup
    [kind : {"Ok"}, json : BOOLEAN, fields : SUBSET AnalysisFields, typed : BOOLEAN,
     score : {0, 79}]

\* serde_json::from_str::<AnalysisResult>: the text must be JSON, have every
\* field of the struct, each of its type
from_str(response) ==
    IF response.json /\ AnalysisFields \subseteq response.fields /\ response.typed
    THEN Ok([score |-> response.score, summary |-> "parsed"])
    ELSE Err("parse")

\* the AnalysisResult built in unwrap_or_else, per agent
fallback(role) ==
    CASE role = "Technical" -> [score |-> 70, summary |-> "fixed"]
      [] role = "HR" -> [score |-> 75, summary |-> "fixed"]
      [] role = "Business" -> [score |-> 75, summary |-> "fixed"]

\* analyze_answer with the parse error returned to the caller
analyze_answer_propagating(role, upstream) ==
    IF upstream.kind = "Err"
    THEN Err("upstream")
    ELSE from_str(upstream)

\* analyze_answer: `prompt(..).await?`, then from_str(..).unwrap_or_else, Ok
analyze_answer(role, upstream) ==
    IF upstream.kind = "Err"
    THEN Err("upstream")
    ELSE LET parsed == from_str(upstream)
         IN  Ok(IF parsed.kind = "Ok" THEN parsed.value ELSE fallback(role))

\* an agent's analyze_answer is called
CallAnalyze(role, upstream) ==
    /\ an_pc = "idle"
    /\ an_call' = [role |-> role, upstream |-> upstream]
    /\ an_pc' = "called"
    /\ UNCHANGED an_result

\* the call runs to its end
AnalyzeComplete ==
    /\ an_pc = "called"
    /\ an_result' = analyze_answer(an_call.role, an_call.upstream)
    /\ an_pc' = "done"
    /\ UNCHANGED an_call

\* the caller has the result
AnalyzeReturn ==
    /\ an_pc = "done"
    /\ an_pc' = "idle"
    /\ UNCHANGED <<an_call, an_result>>

----------------------------------------------------------------------------
(* AgentScheduler over any agent set: rig_adapter/scheduler.rs             *)

\* the sequences of at most n elements of S
SeqUpTo(S, n) == UNION {[1..k -> S] : k \in 1..n}

\* enum RotationStrategy
RotationStrategy == {"FixedOrder", "PhaseBased", "Random"}

\* AgentScheduler::new(agents)
scheduler_new(ags) ==
    [agents |-> ags, current_index |-> 0, rotation_strategy |-> "FixedOrder"]

\* AgentScheduler::with_strategy
with_strategy(sch, strategy) == [sch EXCEPT !.rotation_strategy = strategy]

\* a scheduler is built over some agents, with some strategy
SchedulerNew(ags, strategy) ==
    /\ scheduler' = with_strategy(scheduler_new(ags), strategy)
    /\ sch_selected' = "none"

\* next_agent(): the index the strategy gives; i is the random draw
NextAgent(i) ==
    /\ i < Len(scheduler.agents)
    /\ scheduler' =
          [scheduler EXCEPT !.current_index =
              CASE scheduler.rotation_strategy = "FixedOrder" ->
                      (scheduler.current_index + 1) % Len(scheduler.agents)
                [] scheduler.rotation_strategy = "Random" -> i
                [] scheduler.rotation_strategy = "PhaseBased" -> scheduler.current_index]
    /\ sch_selected' = "none"

\* select_by_phase(phase) on the scheduler
SelectByPhase(phase) ==
    /\ scheduler' = [scheduler EXCEPT
                        !.current_index = select_by_phase(scheduler.agents, phase)]
    /\ sch_selected' = phase

----------------------------------------------------------------------------
(* Bulk import: rag/import.rs                                              *)

\* what a line of a TXT file can be: empty after trim, a comment, a line
\* with fewer than two fields, a record embed_and_store accepts, a record
\* embed_and_store rejects; an item of a JSON array is one of the last two
TxtLines == {"empty", "comment", "malformed", "stored", "rejected"}
JsonItems == {"stored", "rejected"}

\* the files given to the import: unreadable, not a JSON array of
\* KnowledgeItem, or readable with up to MaxLines records
ImportFiles ==
    [format : {"txt"}, status : {"ok"}, records : {<< >>} \cup SeqUpTo(TxtLines, MaxLines)]
    \cup [format : {"json"}, status : {"ok"},
          records : {<< >>} \cup SeqUpTo(JsonItems, MaxLines)]
    \cup [format : {"txt", "json"}, status : {"unreadable"}, records : {<< >>}]
    \cup [format : {"json"}, status : {"unparsable"}, records : {<< >>}]

\* the locals before the loop (import.rs:39-41, 81-83); calls lists the line
\* numbers handed to embed_and_store
import_acc0 == [success_count |-> 0, fail_count |-> 0, errors |-> << >>, calls |-> << >>]

\* the loop body leaving the loop's remaining records alone after a failure
import_record_fail_fast(format, acc, n, kind) ==
    IF acc.fail_count > 0 THEN acc
    ELSE IF format = "txt" /\ kind \in {"empty", "comment"} THEN acc
    ELSE IF format = "txt" /\ kind = "malformed"
    THEN [acc EXCEPT !.fail_count = @ + 1,
                     !.errors = Append(@, [line |-> n, message |-> "Invalid format"])]
    ELSE IF kind = "stored"
    THEN [acc EXCEPT !.success_count = @ + 1, !.calls = Append(@, n)]
    ELSE [acc EXCEPT !.fail_count = @ + 1, !.calls = Append(@, n),
                     !.errors = Append(@, [line |-> n, message |-> "embed_and_store"])]

\* the loop body for record n (counted from 1): TXT skips empty lines and
\* comments and counts a line with fewer than two fields as failed; every
\* other record goes to embed_and_store and is counted by its result
import_record(format, acc, n, kind) ==
    IF format = "txt" /\ kind \in {"empty", "comment"} THEN acc
    ELSE IF format = "txt" /\ kind = "malformed"
    THEN [acc EXCEPT !.fail_count = @ + 1,
                     !.errors = Append(@, [line |-> n, message |-> "Invalid format"])]
    ELSE IF kind = "stored"
    THEN [acc EXCEPT !.success_count = @ + 1, !.calls = Append(@, n)]
    ELSE [acc EXCEPT !.fail_count = @ + 1, !.calls = Append(@, n),
                     !.errors = Append(@, [line |-> n, message |-> "embed_and_store"])]

\* the import is called: read_to_string and, for JSON, from_str return
\* through `?`; otherwise the loop starts
ImportStart(file) ==
    /\ im_pc = "idle"
    /\ im_file' = file
    /\ im_idx' = 0
    /\ im_acc' = import_acc0
    /\ IF file.status = "ok"
       THEN im_pc' = "loop" /\ im_result' = [kind |-> "none"]
       ELSE im_pc' = "done" /\ im_result' = Err(file.status)

\* one iteration of the loop
ImportRecord ==
    /\ im_pc = "loop"
    /\ im_idx < Len(im_file.records)
    /\ im_acc' = import_record(im_file.format, im_acc, im_idx + 1,
                               im_file.records[im_idx + 1])
    /\ im_idx' = im_idx + 1
    /\ UNCHANGED <<im_file, im_pc, im_result>>

\* the loop is over: Ok(ImportResult { success_count, fail_count, errors })
ImportFinish ==
    /\ im_pc = "loop"
    /\ im_idx = Len(im_file.records)
    /\ im_result' = Ok([success_count |-> im_acc.success_count,
                        fail_count |-> im_acc.fail_count,
                        errors |-> im_acc.errors])
    /\ im_pc' = "done"
    /\ UNCHANGED <<im_file, im_idx, im_acc>>

\* the caller has the result
ImportReturn ==
    /\ im_pc = "done"
    /\ im_pc' = "idle"
    /\ UNCHANGED <<im_file, im_idx, im_acc, im_result>>

----------------------------------------------------------------------------
(* Generic cache with TTL: analysis/cache_manager.rs                       *)

CacheKeys == {"k1", "k2"}
CacheValues == {1, 2}
\* the TTLs given to set, in ticks; NoTtl stands for None
Ttls == 0..MaxTtl
NoTtl == -1
\* the default_ttl the cache is built with
DefaultTtl == 1
\* a key without entry in the HashMap
NoEntry == [value |-> None, expires_at |-> -1]

\* GenericCache::new(default_ttl)
cache_new(default_ttl) ==
    [cache |-> [k \in CacheKeys |-> NoEntry], default_ttl |-> default_ttl,
     hits |-> 0, misses |-> 0]

\* CacheEntry::new(value, ttl): expires_at = SystemTime::now() + ttl
entry_new(value, ttl) == [value |-> value, expires_at |-> now + ttl]

\* is_expired with an entry never expiring
is_expired_never(entry) == FALSE

\* CacheEntry::is_expired(): SystemTime::now() > expires_at
is_expired(entry) == now > entry.expires_at

\* get(key): an expired entry is removed and counted as a miss, a live one
\* is a hit and its value is returned, no entry is a miss
CacheGet(key) ==
    LET entry == generic_cache.cache[key]
    IN /\ generic_cache.hits + generic_cache.misses < MaxGets
       /\ IF entry # NoEntry /\ ~is_expired(entry)
          THEN /\ generic_cache' = [generic_cache EXCEPT !.hits = @ + 1]
               /\ ca_got' = [key |-> key, value |-> entry.value]
          ELSE /\ generic_cache' = [generic_cache EXCEPT !.cache[key] = NoEntry,
                                                          !.misses = @ + 1]
               /\ ca_got' = [key |-> key, value |-> None]
       /\ UNCHANGED <<now, ca_sets>>

\* set(key, value, ttl): ttl.unwrap_or(default_ttl), insert
CacheSet(key, value, ttl) ==
    LET t == IF ttl = NoTtl THEN generic_cache.default_ttl ELSE ttl
    IN /\ generic_cache' = [generic_cache EXCEPT !.cache[key] = entry_new(value, t)]
       /\ ca_sets' = [ca_sets EXCEPT ![key] = [value |-> value, at |-> now, ttl |-> t]]
       /\ ca_got' = [key |-> "none", value |-> None]
       /\ UNCHANGED now

\* invalidate(key): remove
CacheInvalidate(key) ==
    /\ generic_cache' = [generic_cache EXCEPT !.cache[key] = NoEntry]
    /\ ca_sets' = [ca_sets EXCEPT ![key] = NoEntry]
    /\ ca_got' = [key |-> "none", value |-> None]
    /\ UNCHANGED now

\* clear()
CacheClear ==
    /\ generic_cache' = [generic_cache EXCEPT !.cache = [k \in CacheKeys |-> NoEntry]]
    /\ ca_sets' = [k \in CacheKeys |-> NoEntry]
    /\ ca_got' = [key |-> "none", value |-> None]
    /\ UNCHANGED now

\* cleanup(): retain the entries that are not expired
CacheCleanup ==
    /\ generic_cache' =
          [generic_cache EXCEPT !.cache =
              [k \in CacheKeys |-> IF is_expired(generic_cache.cache[k])
                                   THEN NoEntry ELSE generic_cache.cache[k]]]
    /\ ca_got' = [key |-> "none", value |-> None]
    /\ UNCHANGED <<now, ca_sets>>

\* time passes
CacheTick ==
    /\ now < MaxTime
    /\ now' = now + 1
    /\ ca_got' = [key |-> "none", value |-> None]
    /\ UNCHANGED <<generic_cache, ca_sets>>

----------------------------------------------------------------------------
(* Initial state and specifications                                        *)

vars == <<smVars, sessionVars, dedupVars, retryVars, ragVars, vectorVars, degradeVars, analyzeVars, schedulerVars, importVars, cacheVars>>

Init ==
    \* InterviewStateMachine::new(), AgentScheduler::new(), MultiAgentSession::new()
    /\ state_machine = sm_new
    /\ sm_maybe_called = FALSE
    /\ sm_record_calls = 0
    /\ sm_last = [op |-> "none", score |-> 0]
    /\ current_index = 0
    /\ conversation_history = << >>
    /\ last_cmd = "none"
    /\ last_ok = TRUE
    /\ alternating = TRUE
    \* start_multi_agent_interview has stored the session
    /\ multi_agent_sessions = {session_id}
    \* RequestDeduplicator::new()
    /\ pending = [k \in Keys |-> NoCell]
    /\ cell_result = [i \in Cells |-> "none"]
    /\ cell_owner = [i \in Cells |-> NoCaller]
    /\ next_cell = 1
    /\ dd_pc = [c \in Callers |-> "idle"]
    /\ dd_key = [c \in Callers |-> "A"]
    /\ dd_cell = [c \in Callers |-> NoCell]
    /\ dd_ret = [c \in Callers |-> "none"]
    /\ exec_count = [i \in Cells |-> 0]
    /\ dd_during = [c \in Callers |-> {}]
    /\ dd_ran = [c \in Callers |-> FALSE]
    \* no execute call yet
    /\ rt_policy = default_policy
    /\ rt_pc = "idle"
    /\ rt_attempts = 0
    /\ rt_delay = 0
    /\ rt_result = [kind |-> "none", value |-> 0]
    /\ rt_invocations = 0
    /\ rt_all_failed = TRUE
    /\ rt_sleeps = << >>
    /\ rt_errors = {}
    \* RagService::new()
    /\ init_failed = FALSE
    /\ internals = 0
    /\ permit = NoCaller
    /\ loads = [a \in Attempts |-> "none"]
    /\ next_attempt = 1
    /\ rag_pc = [c \in RagCallers |-> "idle"]
    /\ rag_attempt = [c \in RagCallers |-> 0]
    /\ rag_during = [c \in RagCallers |-> 0]
    /\ rag_from = [c \in RagCallers |-> 0]
    /\ rag_after_fail = [c \in RagCallers |-> FALSE]
    /\ any_failed = FALSE
    \* VectorStore::new() on an empty table
    /\ knowledge_vectors = {}
    /\ last_rowid = 0
    /\ hnsw_index = new_index
    /\ bi_pc = "idle"
    /\ embeddings = {}
    /\ hnsw = {}
    /\ se_pc = "idle"
    /\ se_args = [embedding |-> 0, top_k |-> 0, content_type |-> NoFilter]
    /\ neighbors = << >>
    /\ se_results = << >>
    /\ se_err = "none"
    /\ build_called = FALSE
    /\ fresh = {}
    /\ se_fresh = {}
    \* no call yet
    /\ dg_pc = "idle"
    /\ dg_call = dg_none
    /\ dg_result = [kind |-> "none", context |-> << >>]
    \* no analyze_answer call yet
    /\ an_pc = "idle"
    /\ an_call = [role |-> "Technical", upstream |-> [kind |-> "Err"]]
    /\ an_result = [kind |-> "none"]
    \* the scheduler of MultiAgentSession::new()
    /\ scheduler = with_strategy(scheduler_new(agents), "PhaseBased")
    /\ sch_selected = "none"
    \* no import call yet
    /\ im_file = [format |-> "json", status |-> "ok", records |-> << >>]
    /\ im_pc = "idle"
    /\ im_idx = 0
    /\ im_acc = import_acc0
    /\ im_result = [kind |-> "none"]
    \* GenericCache::new(DefaultTtl)
    /\ generic_cache = cache_new(DefaultTtl)
    /\ now = 0
    /\ ca_sets = [k \in CacheKeys |-> NoEntry]
    /\ ca_got = [key |-> "none", value |-> None]

\* the variables each component leaves alone
notSM == <<sessionVars, dedupVars, retryVars, ragVars, vectorVars, degradeVars, analyzeVars, schedulerVars, importVars, cacheVars>>
notSession == <<dedupVars, retryVars, ragVars, vectorVars, degradeVars, analyzeVars, schedulerVars, importVars, cacheVars>>
notDedup == <<smVars, sessionVars, retryVars, ragVars, vectorVars, degradeVars, analyzeVars, schedulerVars, importVars, cacheVars>>
notRetry == <<smVars, sessionVars, dedupVars, ragVars, vectorVars, degradeVars, analyzeVars, schedulerVars, importVars, cacheVars>>
notRag == <<smVars, sessionVars, dedupVars, retryVars, vectorVars, degradeVars, analyzeVars, schedulerVars, importVars, cacheVars>>
notVector == <<smVars, sessionVars, dedupVars, retryVars, ragVars, degradeVars, analyzeVars, schedulerVars, importVars, cacheVars>>
notDegrade == <<smVars, sessionVars, dedupVars, retryVars, ragVars, vectorVars, analyzeVars, schedulerVars, importVars, cacheVars>>
notAnalyze == <<smVars, sessionVars, dedupVars, retryVars, ragVars, vectorVars, degradeVars, schedulerVars, importVars, cacheVars>>
notScheduler == <<smVars, sessionVars, dedupVars, retryVars, ragVars, vectorVars, degradeVars, analyzeVars, importVars, cacheVars>>
notImport == <<smVars, sessionVars, dedupVars, retryVars, ragVars, vectorVars, degradeVars, analyzeVars, schedulerVars, cacheVars>>
notCache == <<smVars, sessionVars, dedupVars, retryVars, ragVars, vectorVars, degradeVars, analyzeVars, schedulerVars, importVars>>

\* the state machine driven directly by record_question and maybe_advance
\* the state-machine part of a successful multi_agent_submit_answer
\* (lib.rs:1744-1748): record_question, then maybe_advance on the analysis
Submit(score) ==
    /\ state_machine.total_question_count < MaxQuestions
    /\ state_machine' = maybe_advance(record_question(state_machine), score)
    /\ sm_record_calls' = sm_record_calls + 1
    /\ sm_maybe_called' = TRUE
    /\ sm_last' = [op |-> "submit", score |-> score]

NextSM ==
    \/ RecordQuestion /\ UNCHANGED notSM
    \/ \E score \in Scores : MaybeAdvance(score) /\ UNCHANGED notSM

\* a session driven by the two commands of lib.rs
NextSession ==
    \/ \E ok \in BOOLEAN : multi_agent_next_question(ok) /\ UNCHANGED notSession
    \/ \E answer \in Answers, outcome \in SessionScores \cup {UpstreamError} :
          multi_agent_submit_answer(answer, outcome) /\ UNCHANGED notSession
    \/ multi_agent_end_session /\ UNCHANGED notSession

\* a session driven by successful multi_agent_submit_answer calls only
NextSubmit ==
    \E score \in Scores : Submit(score) /\ UNCHANGED notSM

\* concurrent deduplicate calls
NextDedup ==
    \/ \E c \in Callers, k \in Keys : Register(c, k) /\ UNCHANGED notDedup
    \/ \E c \in Callers : Acquire(c) /\ UNCHANGED notDedup
    \/ \E c \in Callers, r \in Results : Finish(c, r) /\ UNCHANGED notDedup
    \/ \E c \in Callers : Remove(c) /\ UNCHANGED notDedup
    \/ \E c \in Callers : Return(c) /\ UNCHANGED notDedup

\* concurrent deduplicate calls and clear calls
NextDedupClear ==
    \/ \E c \in Callers, k \in Keys : Register(c, k) /\ UNCHANGED notDedup
    \/ \E c \in Callers : Acquire(c) /\ UNCHANGED notDedup
    \/ \E c \in Callers, r \in Results : Finish(c, r) /\ UNCHANGED notDedup
    \/ \E c \in Callers : Remove(c) /\ UNCHANGED notDedup
    \/ \E c \in Callers : Return(c) /\ UNCHANGED notDedup
    \/ Clear /\ UNCHANGED notDedup

\* concurrent deduplicate calls for one key, some of them dropped
NextDedupCancel ==
    \/ \E c \in Callers : Register(c, "A") /\ UNCHANGED notDedup
    \/ \E c \in Callers : Acquire(c) /\ UNCHANGED notDedup
    \/ \E c \in Callers, r \in Results : Finish(c, r) /\ UNCHANGED notDedup
    \/ \E c \in Callers : Remove(c) /\ UNCHANGED notDedup
    \/ \E c \in Callers : Return(c) /\ UNCHANGED notDedup
    \/ \E c \in Callers : Cancel(c) /\ UNCHANGED notDedup

\* execute calls on a RetryPolicy
NextRetry ==
    \/ \E policy \in Policies : Execute(policy) /\ UNCHANGED notRetry
    \/ \E outcome \in {"Ok"} \cup Errors : Invoke(outcome) /\ UNCHANGED notRetry
    \/ Wake /\ UNCHANGED notRetry
    \/ Returned /\ UNCHANGED notRetry

\* concurrent operations on a RagService
NextRag ==
    \/ \E c \in RagCallers : EnsureInitialized(c) /\ UNCHANGED notRag
    \/ \E c \in RagCallers : GetOrTryInit(c) /\ UNCHANGED notRag
    \/ \E c \in RagCallers, ok \in BOOLEAN : LoadDone(c, ok) /\ UNCHANGED notRag
    \/ \E c \in RagCallers, ok \in BOOLEAN : BuildDone(c, ok) /\ UNCHANGED notRag
    \/ \E c \in RagCallers : Timeout(c) /\ UNCHANGED notRag
    \/ \E c \in RagCallers : RagReturn(c) /\ UNCHANGED notRag
    \/ \E a \in Attempts : DetachedLoadDone(a) /\ UNCHANGED notRag

\* inserts, deletes, build_index and search on one VectorStore
NextVector ==
    \/ \E ct \in ContentTypes, e \in Embeddings : Insert(ct, e) /\ UNCHANGED notVector
    \/ \E id \in Ids : Delete(id) /\ UNCHANGED notVector
    \/ BuildStart /\ UNCHANGED notVector
    \/ BuildInsert /\ UNCHANGED notVector
    \/ BuildPublish /\ UNCHANGED notVector
    \/ BuildReturn /\ UNCHANGED notVector
    \/ \E e \in QueryEmbeddings, k \in TopKs, ct \in ContentTypes \cup {NoFilter} :
          SearchStart(e, k, ct) /\ UNCHANGED notVector
    \/ SearchFetch /\ UNCHANGED notVector
    \/ SearchReturn /\ UNCHANGED notVector

\* calls of the two operations that use retrieval as an enhancement
NextDegrade ==
    \/ \E adapter \in {"noop", "real"}, r \in Retrievals, upstream_ok \in BOOLEAN :
          CallGenerateQuestion(adapter, r, upstream_ok) /\ UNCHANGED notDegrade
    \/ \E client_ok \in BOOLEAN, knowledge_count \in {0, 3}, r \in Retrievals,
          upstream_ok \in BOOLEAN :
          CallGenerateQuestions(client_ok, knowledge_count, r, upstream_ok)
             /\ UNCHANGED notDegrade
    \/ Complete /\ UNCHANGED notDegrade
    \/ DgReturn /\ UNCHANGED notDegrade

\* calls of analyze_answer on the three agents
NextAnalyze ==
    \/ \E role \in InterviewerRole, upstream \in Responses :
          CallAnalyze(role, upstream) /\ UNCHANGED notAnalyze
    \/ AnalyzeComplete /\ UNCHANGED notAnalyze
    \/ AnalyzeReturn /\ UNCHANGED notAnalyze

\* a scheduler over any agents, rotated and selected by phase
NextScheduler ==
    \/ \E ags \in SeqUpTo(InterviewerRole, MaxAgents), strategy \in RotationStrategy :
          SchedulerNew(ags, strategy) /\ UNCHANGED notScheduler
    \/ \E i \in 0..(MaxAgents - 1) : NextAgent(i) /\ UNCHANGED notScheduler
    \/ \E phase \in InterviewPhase : SelectByPhase(phase) /\ UNCHANGED notScheduler

\* calls of import_from_json and import_from_txt
NextImport ==
    \/ \E file \in ImportFiles : ImportStart(file) /\ UNCHANGED notImport
    \/ ImportRecord /\ UNCHANGED notImport
    \/ ImportFinish /\ UNCHANGED notImport
    \/ ImportReturn /\ UNCHANGED notImport

\* any sequence of calls on one cache, with time passing in between
NextCache ==
    \/ \E key \in CacheKeys : CacheGet(key) /\ UNCHANGED notCache
    \/ \E key \in CacheKeys, value \in CacheValues, ttl \in Ttls \cup {NoTtl} :
          CacheSet(key, value, ttl) /\ UNCHANGED notCache
    \/ \E key \in CacheKeys : CacheInvalidate(key) /\ UNCHANGED notCache
    \/ CacheClear /\ UNCHANGED notCache
    \/ CacheCleanup /\ UNCHANGED notCache
    \/ CacheTick /\ UNCHANGED notCache

SpecSM == Init /\ [][NextSM]_vars
SpecSubmit == Init /\ [][NextSubmit]_vars
SpecSession == Init /\ [][NextSession]_vars
SpecDedup == Init /\ [][NextDedup]_vars
SpecDedupClear == Init /\ [][NextDedupClear]_vars
SpecDedupCancel == Init /\ [][NextDedupCancel]_vars
SpecRetry == Init /\ [][NextRetry]_vars
SpecRag == Init /\ [][NextRag]_vars
SpecVector == Init /\ [][NextVector]_vars
SpecDegrade == Init /\ [][NextDegrade]_vars
SpecAnalyze == Init /\ [][NextAnalyze]_vars
SpecScheduler == Init /\ [][NextScheduler]_vars
SpecImport == Init /\ [][NextImport]_vars
SpecCache == Init /\ [][NextCache]_vars

\* SpecDedup when every supplied operation terminates and no caller is
\* cancelled: a caller that can take a free cell does, f completes, and the
\* executor gets the write lock on the map
FairDedup ==
    /\ SpecDedup
    /\ \A c \in Callers :
          /\ WF_vars(Acquire(c) /\ UNCHANGED notDedup)
          /\ WF_vars((\E r \in Results : Finish(c, r)) /\ UNCHANGED notDedup)
          /\ WF_vars(Remove(c) /\ UNCHANGED notDedup)

----------------------------------------------------------------------------
(* Claims                                                                  *)

\* C1 (SpecDedup): every caller that registered for a key while an execution
\* of f for that key was in flight shares the cell of that execution, does
\* not run f itself, and returns the value that single run stored; the cell
\* is executed exactly once, and the executing caller returns the same value.
C1_SingleExecution ==
    \A c \in Callers :
       /\ \A e \in dd_during[c] :
             /\ dd_cell[c] = e
             /\ exec_count[e] = 1
             /\ ~dd_ran[c]
             /\ dd_pc[c] = "done" => (dd_ret[c] = cell_result[e] /\ dd_ret[c] \in Results)
       /\ (dd_pc[c] = "done" /\ dd_ran[c]) =>
             (dd_ret[c] = cell_result[dd_cell[c]] /\ exec_count[dd_cell[c]] = 1)

\* all callers have returned: one ran f, every other one arrived while that
\* run was in flight and returned the same value
C1_Witness ==
    \E c \in Callers :
       /\ dd_pc[c] = "done" /\ dd_ran[c]
       /\ \A d \in Callers \ {c} :
             dd_pc[d] = "done" /\ dd_during[d] = {dd_cell[c]} /\ dd_ret[d] = dd_ret[c]

\* C2 (SpecRag): initialization is single-flight: at most one model load is
\* running at any moment, and a caller that arrived while an attempt was
\* running and returns the result of an attempt returns the result of that
\* same attempt.
C2_SingleFlight ==
    /\ Cardinality({a \in Attempts : loads[a] = "running"}) <= 1
    /\ \A c \in RagCallers :
          (rag_pc[c] \in {"ok", "err"} /\ rag_during[c] # 0 /\ rag_from[c] # 0)
             => rag_from[c] = rag_during[c]

\* C3 (SpecRag): a call that starts after an initialization attempt has
\* failed (by error or by timeout) returns an error at once and starts no
\* attempt.
C3_FailFastAfterFailure ==
    \A c \in RagCallers : rag_after_fail[c] => rag_pc[c] = "err"

\* a turn lacking an answer exists in the history
HasPendingTurn(history) == \E i \in 1..Len(history) : history[i].answer = None

\* C4 (SpecSession): process_answer (reached through
\* multi_agent_submit_answer) fails and leaves the history as it is whenever
\* no turn of the history lacks an answer.
C4_NoPendingTurn ==
    [][(last_cmd' = "submit" /\ ~HasPendingTurn(conversation_history))
          => (~last_ok' /\ conversation_history' = conversation_history)]_vars

\* C5 (SpecSession): a populated answer or analysis of a turn is never
\* changed afterwards, and an analysis is present only with an answer.
C5_WriteOnce ==
    [][\A i \in 1..Len(conversation_history) :
          /\ conversation_history[i].answer # None =>
                conversation_history'[i].answer = conversation_history[i].answer
          /\ conversation_history[i].analysis # None =>
                conversation_history'[i].analysis = conversation_history[i].analysis
          /\ conversation_history'[i].analysis # None =>
                conversation_history'[i].answer # None]_vars

\* C6 (SpecSM): every step keeps current_phase or moves it to the immediate
\* successor in the order of the enum; Completed is never left.
C6_ForwardOnly ==
    [][LET p == state_machine.current_phase
           q == state_machine'.current_phase
       IN /\ PhaseOrd(q) - PhaseOrd(p) \in {0, 1}
          /\ p = "Completed" => q = "Completed"]_vars

\* the phase has been driven to Completed with both operations
C6_Witness ==
    state_machine.current_phase = "Completed" /\ sm_maybe_called /\ sm_record_calls > 0

\* max_questions of the phase in the default configuration, 0 for Completed
MaxOf(phase) ==
    LET i == find_config(default_configs, phase)
    IN IF i = 0 THEN 0 ELSE default_configs[i].max_questions

\* min_questions of the phase in the default configuration, 0 for Completed
MinOf(phase) ==
    LET i == find_config(default_configs, phase)
    IN IF i = 0 THEN 0 ELSE default_configs[i].min_questions

\* C7 (SpecSM): a record_question call adds one to total_question_count and
\* to phase_question_count, and moves to the next phase (resetting the phase
\* counter) exactly when the incremented phase counter equals max_questions
\* of the current phase; from a new machine without maybe_advance calls the
\* phase is WarmUp after the first call and Technical after the second.
C7_RecordQuestion ==
    /\ [](~sm_maybe_called =>
            /\ sm_record_calls = 1 => state_machine.current_phase = "WarmUp"
            /\ sm_record_calls = 2 => state_machine.current_phase = "Technical")
    /\ [][sm_record_calls' # sm_record_calls =>
            LET p == state_machine.current_phase
                n == state_machine.phase_question_count + 1
            IN /\ state_machine'.total_question_count = state_machine.total_question_count + 1
               /\ IF p # "Completed" /\ n = MaxOf(p)
                  THEN /\ PhaseOrd(state_machine'.current_phase) = PhaseOrd(p) + 1
                       /\ state_machine'.phase_question_count = 0
                  ELSE /\ state_machine'.current_phase = p
                       /\ state_machine'.phase_question_count = n]_vars

\* two record_question calls on a new machine, no maybe_advance: Technical
C7_Witness ==
    /\ ~sm_maybe_called
    /\ sm_record_calls = 2
    /\ state_machine.current_phase = "Technical"
    /\ state_machine.phase_question_count = 0

\* C8 (SpecSM): maybe_advance with score 7.9 changes nothing; with score 8.0
\* and phase_question_count >= min_questions of the current phase it moves
\* to the next phase.
C8_MaybeAdvance ==
    [][sm_last'.op = "maybe" =>
          LET p == state_machine.current_phase
          IN /\ sm_last'.score = 79 => state_machine' = state_machine
             /\ (sm_last'.score = 80 /\ p # "Completed"
                   /\ state_machine.phase_question_count >= MinOf(p))
                   => PhaseOrd(state_machine'.current_phase) = PhaseOrd(p) + 1]_vars

\* maybe_advance with 8.0 after one question in WarmUp has moved to Technical
C8_Witness ==
    /\ sm_last = [op |-> "maybe", score |-> 80]
    /\ sm_record_calls = 1
    /\ state_machine.current_phase = "Technical"

\* C9 as stated (SpecSession): with alternating commands, the first two
\* turns are produced by the HR agent and every turn requested in the
\* Technical phase is produced by the Technical agent.
C9_FirstTwoTurnsHR ==
    alternating =>
       \A i \in 1..Len(conversation_history) :
          /\ i <= 2 => conversation_history[i].role = "HR"
          /\ conversation_history[i].phase = "Technical" =>
                conversation_history[i].role = "Technical"

\* C9 amended (SpecSession): with alternating commands, the first turn is
\* produced by the HR agent, as is every turn requested while the phase is
\* WarmUp; the phase is WarmUp only while at most one answer has been
\* analysed and no analysis scored 8.0 or more; every turn requested while
\* the phase is Technical is produced by the Technical agent.
C9_PhaseDrivenTurns ==
    alternating =>
       /\ Len(conversation_history) >= 1 => conversation_history[1].role = "HR"
       /\ \A i \in 1..Len(conversation_history) :
             /\ conversation_history[i].phase = "WarmUp" =>
                   conversation_history[i].role = "HR"
             /\ conversation_history[i].phase = "Technical" =>
                   conversation_history[i].role = "Technical"
       /\ state_machine.current_phase = "WarmUp" =>
             /\ sm_record_calls <= 1
             /\ \A i \in 1..Len(conversation_history) :
                   conversation_history[i].analysis < 80

\* the first answer scored 8.0 or more: the second and the third turn are
\* produced by the Technical agent
C9_Witness ==
    /\ alternating
    /\ Len(conversation_history) = 3
    /\ conversation_history[1].role = "HR"
    /\ conversation_history[1].analysis >= 80
    /\ conversation_history[2].role = "Technical"
    /\ conversation_history[3].role = "Technical"

\* C10 as stated (SpecRetry): an operation that failed on every invocation
\* was invoked exactly max_retries times and execute returned the error of
\* the last invocation.
C10_ExactlyMaxRetries ==
    (rt_pc = "done" /\ rt_all_failed) =>
       /\ rt_invocations = rt_policy.max_retries
       /\ rt_result = [kind |-> "Err", value |-> rt_invocations]

\* C10 amended (SpecRetry): an operation that failed on every invocation was
\* invoked max_retries times, once when max_retries is 0, and execute
\* returned the error of the last invocation.
C10_AtLeastOnce ==
    (rt_pc = "done" /\ rt_all_failed) =>
       /\ rt_invocations = (IF rt_policy.max_retries = 0 THEN 1 ELSE rt_policy.max_retries)
       /\ rt_result = [kind |-> "Err", value |-> rt_invocations]

\* three failures under max_retries = 3, the error of the third is returned
C10_Witness ==
    /\ rt_pc = "done"
    /\ rt_all_failed
    /\ rt_policy.max_retries = 3
    /\ rt_invocations = 3
    /\ rt_result = [kind |-> "Err", value |-> 3]

\* C11 (SpecRetry): execute returns Ok with the value of the successful
\* invocation, which is invocation number failures + 1, so that an operation
\* failing max_retries - 1 times and then succeeding is invoked exactly
\* max_retries times; execute gives up only after max_retries failures, and
\* once an invocation has returned Ok the loop is left: no invocation follows.
C11_SuccessAfterFailures ==
    /\ (rt_pc = "done" /\ rt_result.kind = "Ok") =>
          /\ rt_invocations = rt_attempts + 1
          /\ rt_result.value = rt_invocations
          /\ (rt_attempts = rt_policy.max_retries - 1 =>
                 rt_invocations = rt_policy.max_retries)
    /\ (rt_pc = "done" /\ rt_result.kind = "Err") =>
          rt_attempts >= rt_policy.max_retries
    /\ rt_result.kind = "Ok" => rt_pc \in {"done", "idle"}

\* two failures and then a success under max_retries = 3
C11_Witness ==
    /\ rt_pc = "done"
    /\ rt_policy.max_retries = 3
    /\ rt_attempts = 2
    /\ rt_invocations = 3
    /\ rt_result = [kind |-> "Ok", value |-> 3]

\* C12 (SpecVector): as long as build_index has never been called the store
\* has no index, and a search that has returned has failed with "Index not
\* built" and has no results, however many rows have been inserted.
C12_IndexNotBuilt ==
    ~build_called =>
       /\ ~hnsw_index.built
       /\ se_pc = "done" => (se_err = "Index not built" /\ se_results = << >>)
       /\ se_pc # "fetching"

\* a search has failed on a store that holds MaxEntries rows and was never built
C12_Witness ==
    /\ ~build_called
    /\ Cardinality(knowledge_vectors) = MaxEntries
    /\ se_pc = "done"
    /\ se_err = "Index not built"
    /\ se_args.top_k > 0

\* C13 (SpecVector): a search that returns Ok returns at most top_k results,
\* in order of non-increasing similarity, and with a content_type filter
\* every result has that content_type.
C13_SearchResults ==
    (se_pc = "done" /\ se_err = "none") =>
       /\ Len(se_results) <= se_args.top_k
       /\ \A i, j \in 1..Len(se_results) :
             i < j => se_results[i].similarity >= se_results[j].similarity
       /\ se_args.content_type # NoFilter =>
             \A i \in 1..Len(se_results) :
                se_results[i].content_type = se_args.content_type

\* after inserts of both content types and one build, a filtered search with
\* top_k = 2 returned the one row of the requested type
C13_Witness ==
    /\ se_pc = "done"
    /\ se_err = "none"
    /\ se_args.top_k = 2
    /\ se_args.content_type = "question"
    /\ Cardinality(hnsw_index.points) = 2
    /\ \E r \in knowledge_vectors : r.content_type = "answer"
    /\ Len(se_results) = 1

\* C14 as stated (SpecVector): when build_index has returned Ok, an index
\* exists and holds exactly the ids that were in the table at that build.
C14_BuildReplacesIndex ==
    bi_pc = "done" => (hnsw_index.built /\ hnsw_index.points = embeddings)

\* C15 (SpecVector): the index slot changes only by being assigned the index
\* of every vector the build has read, in one step, and not while a search
\* holds the index; an index that exists was assigned that way.
C15_AtomicSwap ==
    [][hnsw_index' # hnsw_index =>
          /\ ~index_held
          /\ bi_pc = "building"
          /\ hnsw_index' = [built |-> TRUE, points |-> embeddings]]_vars

\* a search has read the previous index while build_index is part-way
\* through the construction of the next one
C15_Witness ==
    /\ se_pc = "fetching"
    /\ neighbors # << >>
    /\ bi_pc = "building"
    /\ hnsw # {}
    /\ hnsw # embeddings
    /\ hnsw_index.points # embeddings

\* C16 (SpecVector): a search never returns an id inserted since the last
\* build_index call, the index never holds such an id, and an index built
\* from a non-empty table holds every id that was in the table at that build.
C16_InsertInvisibleUntilBuild ==
    /\ se_pc = "done" => \A i \in 1..Len(se_results) : se_results[i].id \notin se_fresh
    /\ \A p \in hnsw_index.points : p.id \notin fresh
    /\ (bi_pc = "done" /\ embeddings # {}) =>
          {p.id : p \in embeddings} \subseteq {p.id : p \in hnsw_index.points}

\* a row equal to the query was inserted after the build; the search returned
\* an older row and not that one
C16_Witness ==
    /\ se_pc = "done"
    /\ Len(se_results) = 1
    /\ se_args.top_k = 2
    /\ \E r \in knowledge_vectors :
          /\ r.id \in se_fresh
          /\ r.embedding = se_args.embedding
          /\ se_args.content_type \in {NoFilter, r.content_type}

\* C17 (SpecDedup): calls with different keys never share a cell, so a call
\* waits on the mutex of a cell only while a call with its own key runs the
\* operation; every call that returned got the result of an execution made
\* for its own cell, so k pairwise distinct keys give k executions.
C17_DistinctKeysIndependent ==
    /\ \A c, d \in Callers :
          (dd_pc[c] # "idle" /\ dd_pc[d] # "idle" /\ dd_key[c] # dd_key[d]) =>
             dd_cell[c] # dd_cell[d]
    /\ \A c \in Callers :
          (dd_pc[c] = "registered" /\ cell_owner[dd_cell[c]] # NoCaller) =>
             dd_key[cell_owner[dd_cell[c]]] = dd_key[c]
    /\ \A c \in Callers : dd_pc[c] = "done" => exec_count[dd_cell[c]] >= 1

\* the operations of two calls with different keys are in flight together
C17_Witness ==
    \E c, d \in Callers :
       /\ dd_key[c] = "A" /\ dd_key[d] = "B"
       /\ dd_pc[c] = "executing" /\ dd_pc[d] = "executing"
       /\ exec_count[dd_cell[c]] = 1 /\ exec_count[dd_cell[d]] = 1

\* the executing call of the cell has stored its result and returned
Settled(cell) == has_result(cell_result[cell]) /\ cell_owner[cell] = NoCaller

\* C18 (SpecDedup): once the executing call of a key has returned, the map
\* no longer holds the key's cell, and a call that starts takes a cell whose
\* executing call has not returned: it never receives the result of an
\* execution that had returned before it started.
C18_NotACache ==
    /\ [](\A k \in Keys : pending[k] # NoCell => ~Settled(pending[k]))
    /\ [][\A c \in Callers :
             (dd_pc[c] = "idle" /\ dd_pc'[c] = "registered") =>
                /\ ~Settled(dd_cell'[c])
                /\ pending[dd_key'[c]] = NoCell =>
                      (exec_count[dd_cell'[c]] = 0 /\ ~has_result(cell_result[dd_cell'[c]]))]_vars

\* a call ran the operation for a key and returned; a later call with the
\* same key ran the operation again, in a new cell
C18_Witness ==
    \E c, d \in Callers :
       /\ dd_pc[c] = "done" /\ dd_pc[d] = "done"
       /\ dd_key[c] = dd_key[d]
       /\ dd_ran[c] /\ dd_ran[d]
       /\ dd_cell[c] < dd_cell[d]
       /\ exec_count[dd_cell[c]] = 1 /\ exec_count[dd_cell[d]] = 1

\* C19 (SpecRag): init_failed is never cleared; it is set only by the timeout
\* of a call that was inside do_init, and that call returns an error; every
\* call that starts while init_failed is set returns an error at once,
\* whatever the state of the initialization.
C19_TimeoutSticky ==
    [][/\ init_failed => init_failed'
       /\ (~init_failed /\ init_failed') =>
             \E c \in RagCallers :
                /\ rag_pc[c] \in {"waiting", "loading", "building"}
                /\ rag_pc'[c] = "err"
       /\ \A c \in RagCallers :
             (init_failed /\ rag_pc[c] = "idle" /\ rag_pc'[c] # "idle") =>
                rag_pc'[c] = "err"]_vars

\* a waiting call timed out, the only initialization attempt succeeded, and
\* a call that started after the timeout returned an error
C19_Witness ==
    /\ init_failed
    /\ internals = 1
    /\ next_attempt = 2
    /\ \E c \in RagCallers : rag_pc[c] = "err" /\ rag_after_fail[c]
    /\ \E c \in RagCallers : rag_pc[c] = "ok"

\* the retrieval of the call is unavailable: a no-op adapter or a failing
\* embedding or search for the agent; a failed, timed-out or failing
\* initialization, embedding or search for the command
Unavailable(call) ==
    \/ ~call.retrieval.embed_ok
    \/ ~call.retrieval.search_ok
    \/ call.op = "generate_question" /\ call.adapter = "noop"
    \/ call.op = "generate_questions" /\ call.retrieval.init # "ok"

\* C20 (SpecDegrade): a call of generate_question or of generate_questions
\* returns Ok exactly when the text-generation call does (for the command:
\* when there is a client and its call succeeds), whatever the retrieval
\* does; when the retrieval is unavailable the context that goes into the
\* prompt is empty.
C20_RetrievalOptional ==
    dg_pc = "done" =>
       /\ dg_result.kind =
             (IF dg_call.client_ok /\ dg_call.upstream_ok THEN "Ok" ELSE "Err")
       /\ Unavailable(dg_call) => dg_result.context = << >>

\* the agent returned a question although the search of its adapter failed
C20_Witness ==
    /\ dg_pc = "done"
    /\ dg_call.op = "generate_question"
    /\ dg_call.adapter = "real"
    /\ ~dg_call.retrieval.search_ok
    /\ dg_call.retrieval.hits # << >>
    /\ dg_result = [kind |-> "Ok", context |-> << >>]


\* C21: whenever the upstream call succeeds but its response does not parse
\* as the {score, strengths, improvements, summary} structure, analyze_answer
\* returns Ok with the agent's fixed fallback (7.0 for Technical, 7.5 for HR
\* and Business); it returns an error only when the upstream call failed
C21_FallbackOnParseFailure ==
    an_pc = "done" =>
       LET up == an_call.upstream
           wellFormed == /\ up.kind = "Ok"
                         /\ up.json
                         /\ up.fields = {"score", "strengths", "improvements", "summary"}
                         /\ up.typed
       IN  /\ (up.kind = "Ok" /\ ~wellFormed) =>
                 /\ an_result.kind = "Ok"
                 /\ an_result.value.summary = "fixed"
                 /\ an_result.value.score =
                       (IF an_call.role = "Technical" THEN 70 ELSE 75)
           /\ (an_result.kind = "Err") <=> (up.kind = "Err")

\* an HR agent got a JSON response without the summary field and returned
\* its fallback
C21_Witness ==
    /\ an_pc = "done"
    /\ an_call.role = "HR"
    /\ an_call.upstream.kind = "Ok"
    /\ an_call.upstream.json
    /\ an_call.upstream.fields = {"score", "strengths", "improvements"}
    /\ an_result = Ok([score |-> 75, summary |-> "fixed"])


\* C22: the conversation history is an append-only log that grows only
\* through execute_turn: a successful execute_turn appends exactly one turn
\* with answer and analysis empty and the role of the selected agent, a
\* failed one leaves the history unchanged, and no operation removes a turn
\* or changes the role or question of an existing turn
C22_AppendOnlyHistory ==
    [][LET old == conversation_history
           new == conversation_history'
           turnMade == last_cmd' = "next" /\ last_ok'
       IN  /\ Len(new) >= Len(old)
           /\ \A i \in 1..Len(old) :
                 new[i].role = old[i].role /\ new[i].question = old[i].question
           /\ turnMade =>
                 /\ Len(new) = Len(old) + 1
                 /\ new[Len(new)].answer = None
                 /\ new[Len(new)].analysis = None
                 /\ new[Len(new)].role = current_agent(agents, current_index')
           /\ ~turnMade => Len(new) = Len(old)
           /\ (last_cmd' = "next" /\ ~last_ok') => new = old]_vars

\* a second turn was appended behind an answered first turn, and a further
\* multi_agent_next_question has failed since
C22_Witness ==
    /\ Len(conversation_history) = 2
    /\ conversation_history[1].answer # None
    /\ conversation_history[2].answer = None
    /\ conversation_history[2].question = 2
    /\ last_cmd = "next"
    /\ ~last_ok


\* C24: a failure of multi_agent_next_question or multi_agent_submit_answer
\* fails only that command: it returns an error, the session stays in the
\* session map, the phase and both question counters of the state machine
\* are unchanged, and later commands are not turned away
C24_FailureIsLocal ==
    [][(last_cmd' \in {"next", "submit"} /\ ~last_ok') =>
          /\ multi_agent_sessions' = multi_agent_sessions
          /\ state_machine'.current_phase = state_machine.current_phase
          /\ state_machine'.phase_question_count = state_machine.phase_question_count
          /\ state_machine'.total_question_count = state_machine.total_question_count]_vars

\* the analysis of the first answer failed upstream, and a later
\* multi_agent_next_question on the same session succeeded
C24_Witness ==
    /\ session_id \in multi_agent_sessions
    /\ Len(conversation_history) = 2
    /\ conversation_history[1].answer # None
    /\ conversation_history[1].analysis = None
    /\ state_machine.total_question_count = 0
    /\ last_cmd = "next"
    /\ last_ok


\* C23: select_by_phase makes the current agent the one whose role is HR for
\* phases WarmUp, Behavioral and Questions, Technical for phase Technical and
\* Business for phase Business, whenever the agent set has an agent of that
\* role, whatever the order of the agents and the agent selected before
C23_SelectByPhase ==
    \A pair \in {<<"WarmUp", "HR">>, <<"Behavioral", "HR">>, <<"Questions", "HR">>,
                 <<"Technical", "Technical">>, <<"Business", "Business">>} :
       (/\ sch_selected = pair[1]
        /\ \E i \in 1..Len(scheduler.agents) : scheduler.agents[i] = pair[2])
          => current_agent(scheduler.agents, scheduler.current_index) = pair[2]

\* the agents are in the order Business, Technical, HR, and
\* select_by_phase(Questions) made the HR agent, the last one, current
C23_Witness ==
    /\ scheduler.agents = <<"Business", "Technical", "HR">>
    /\ sch_selected = "Questions"
    /\ scheduler.current_index = 2


\* C25: bulk import is not fail-fast: for a file that can be read and
\* parsed, every record (for TXT every non-empty, non-comment line) is
\* attempted even after earlier records failed, success_count + fail_count
\* is the number of records attempted, and errors holds exactly one message
\* per failed record
C25_NotFailFast ==
    (im_pc = "done" /\ im_file.status = "ok") =>
       LET lines == im_file.records
           records == {n \in 1..Len(lines) : lines[n] \notin {"empty", "comment"}}
           failed == {n \in records : lines[n] # "stored"}
           res == im_result.value
       IN  /\ im_result.kind = "Ok"
           /\ {im_acc.calls[j] : j \in 1..Len(im_acc.calls)} =
                 {n \in records : lines[n] # "malformed"}
           /\ Len(im_acc.calls) + Cardinality({n \in records : lines[n] = "malformed"})
                 = Cardinality(records)
           /\ res.success_count + res.fail_count = Cardinality(records)
           /\ res.fail_count = Cardinality(failed)
           /\ Len(res.errors) = Cardinality(failed)
           /\ {res.errors[j].line : j \in 1..Len(res.errors)} = failed

\* a TXT import whose first record was rejected and whose third line, after
\* a comment, was stored
C25_Witness ==
    /\ im_pc = "done"
    /\ im_file.format = "txt"
    /\ im_file.records = <<"rejected", "comment", "stored">>
    /\ im_result.kind = "Ok"
    /\ im_result.value.success_count = 1
    /\ im_result.value.fail_count = 1
    /\ im_acc.calls = <<1, 3>>


\* C26: for any sequence of set, get, invalidate, clear and cleanup calls,
\* get(k) returns the value of the most recent set(k, v) if and only if no
\* invalidate(k) or clear happened since that set and the entry's TTL has
\* not elapsed; otherwise it returns None, and a get that finds an expired
\* entry removes it
C26_GetReturnsLiveValue ==
    [][(generic_cache'.hits + generic_cache'.misses
           = generic_cache.hits + generic_cache.misses + 1) =>
          LET k == ca_got'.key
              last == ca_sets[k]
              live == last # NoEntry /\ now - last.at <= last.ttl
              found == generic_cache.cache[k]
          IN  /\ k \in CacheKeys
              /\ ca_got'.value = (IF live THEN last.value ELSE None)
              /\ (found # NoEntry /\ now > found.expires_at) =>
                    generic_cache'.cache[k] = NoEntry]_vars

\* k1 was set to 2 with a TTL of one tick, read back while live, and two
\* ticks after the set a get returned None and removed the entry
C26_Witness ==
    /\ ca_sets["k1"] = [value |-> 2, at |-> 0, ttl |-> 1]
    /\ now = 2
    /\ ca_got = [key |-> "k1", value |-> None]
    /\ generic_cache.cache["k1"] = NoEntry
    /\ generic_cache.hits = 1
    /\ generic_cache.misses = 1


\* C27: the sleep before the first retry is initial_delay_ms, each following
\* sleep is min(previous sleep x backoff_multiplier, max_delay_ms), and for
\* every configuration no sleep is longer than max_delay_ms
C27_BackoffCapped ==
    /\ Len(rt_sleeps) >= 1 => rt_sleeps[1] = rt_policy.initial_delay_ms
    /\ \A i \in 2..Len(rt_sleeps) :
          LET grown == (rt_sleeps[i - 1] * rt_policy.backoff_multiplier) \div 10
          IN  rt_sleeps[i] = (IF grown < rt_policy.max_delay_ms
                              THEN grown ELSE rt_policy.max_delay_ms)
    /\ \A i \in 1..Len(rt_sleeps) : rt_sleeps[i] <= rt_policy.max_delay_ms

\* C28: execute retries every failed attempt whatever is_retryable says of
\* the error: an operation that keeps failing is invoked max(max_retries, 1)
\* times, with the sleeps the policy alone gives, also when is_retryable is
\* false for its errors
C28_RetriesAnyError ==
    (rt_pc = "done" /\ rt_all_failed) =>
       /\ rt_invocations = (IF rt_policy.max_retries = 0 THEN 1 ELSE rt_policy.max_retries)
       /\ Len(rt_sleeps) = rt_invocations - 1
       /\ Len(rt_sleeps) >= 1 => rt_sleeps[1] = rt_policy.initial_delay_ms
       /\ \A i \in 2..Len(rt_sleeps) :
             rt_sleeps[i] = next_delay(rt_sleeps[i - 1], rt_policy)

\* under the default policy an operation that failed every time with an
\* error that is not retryable was invoked three times, with sleeps of 1000
\* and 2000 ms
C28_Witness ==
    /\ rt_pc = "done"
    /\ rt_policy = default_policy
    /\ rt_all_failed
    /\ rt_errors = {"unauthorized"}
    /\ ~is_retryable("unauthorized")
    /\ rt_invocations = 3
    /\ rt_sleeps = <<1000, 2000>>


\* C29: a filtered search draws its candidates from the max(2k, 50) nearest
\* indexed entries before it filters by content type and truncates to k:
\* whenever at least k entries of the requested content type are among
\* them, search returns exactly k results.  (The index never holds more
\* than 50 entries here, so every indexed entry is among them.)
C29_FilteredOverFetch ==
    [][(/\ se_pc = "fetching"
        /\ se_pc' = "done"
        /\ se_args.content_type # NoFilter
        /\ Cardinality({p \in hnsw_index.points :
                           \E r \in knowledge_vectors :
                              r.id = p.id /\ r.content_type = se_args.content_type})
              >= se_args.top_k)
          => Len(se_results') = se_args.top_k]_vars


\* C30: execute_turn and process_answer change the conversation history only
\* after their upstream call has succeeded: when generate_question or
\* analyze_answer fails, the history, the answer of the last turn included,
\* is what it was before the call
C30_NoWriteBeforeSuccess ==
    [][(last_cmd' \in {"next", "submit"} /\ ~last_ok') =>
          conversation_history' = conversation_history]_vars


\* C33: with the default phase configuration, in a session driven by
\* successful submissions with arbitrary scores, the phase reaches Completed
\* after at most 15 and not fewer than 9 submissions
C33_CompletedWithin9To15 ==
    /\ state_machine.current_phase = "Completed" => sm_record_calls >= 9
    /\ sm_record_calls >= 15 => state_machine.current_phase = "Completed"

\* the ninth submission has just completed the interview
C33_Witness ==
    /\ state_machine.current_phase = "Completed"
    /\ sm_record_calls = 9
    /\ state_machine.total_question_count = 9
    /\ sm_last.op = "submit"

\* C35: after every record_question or maybe_advance call, while the phase
\* is not Completed, phase_question_count is below the phase's
\* max_questions; phase_question_count <= total_question_count; and
\* total_question_count is the number of record_question calls, never reset
C35_CountersInRange ==
    /\ state_machine.current_phase # "Completed" =>
          \E i \in 1..Len(state_machine.phase_configs) :
             /\ state_machine.phase_configs[i].phase = state_machine.current_phase
             /\ state_machine.phase_question_count
                   < state_machine.phase_configs[i].max_questions
    /\ state_machine.phase_question_count <= state_machine.total_question_count
    /\ state_machine.total_question_count = sm_record_calls

\* a forced advance out of the Technical phase has reset the phase counter
\* while the total stays at the number of record_question calls
C35_Witness ==
    /\ state_machine.current_phase = "Behavioral"
    /\ state_machine.phase_question_count = 0
    /\ state_machine.total_question_count = 7
    /\ sm_record_calls = 7
    /\ sm_last.op = "record"

\* C36: one submission (record_question immediately followed by
\* maybe_advance on the same analysis) advances the phase by at most one
\* step, whatever the score
C36_AtMostOneStep ==
    [][PhaseOrd(state_machine'.current_phase)
          <= PhaseOrd(state_machine.current_phase) + 1]_vars

\* a submission with an excellent score has just filled the WarmUp quota:
\* record_question forced the advance and maybe_advance did not add another
C36_Witness ==
    /\ sm_last = [op |-> "submit", score |-> 100]
    /\ state_machine.current_phase = "Technical"
    /\ state_machine.phase_question_count = 0
    /\ state_machine.total_question_count = 2


\* C34: deduplicate is deadlock-free: when every supplied operation
\* terminates and no caller is cancelled, every deduplicate call eventually
\* returns, in every interleaving
C34_EveryCallReturns ==
    \A c \in Callers : (dd_pc[c] = "registered") ~> (dd_pc[c] = "done")

\* a caller waits for the cell of key A while the other caller, which holds
\* the cell, is about to take the write lock on the map for the cleanup
C34_Witness ==
    /\ dd_pc[1] = "registered"
    /\ dd_pc[2] = "stored"
    /\ dd_key[1] = "A"
    /\ dd_key[2] = "A"
    /\ dd_cell[1] = dd_cell[2]
    /\ cell_owner[dd_cell[2]] = 2


\* C32: at most one execution per key is in flight at any time in every
\* interleaving of deduplicate and clear calls, and the cleanup of an
\* executor never removes a pending entry registered by a different
\* execution that is still running
C32_OneInFlightWithClear ==
    [][/\ \A k \in Keys :
             Cardinality({c \in Callers : dd_pc'[c] = "executing" /\ dd_key'[c] = k}) <= 1
       /\ \A c \in Callers :
             (dd_pc[c] = "stored" /\ dd_pc'[c] = "done")
                => pending[dd_key[c]] \in {NoCell, dd_cell[c]}]_vars


C37_ReadyExcludesFailed ==
    ~(init_failed /\ internals # 0)


\* C38: concurrent search and build_index calls never deadlock. A deadlock
\* is a state from which neither call can ever take a step: search holds
\* `index` and waits for `conn` while build_index holds `conn`, has filled
\* its local index and waits for `index`. The claim says no run reaches one.
C38_NoDeadlock ==
    ~(/\ index_held
      /\ conn_held
      /\ hnsw_complete(hnsw, embeddings))

\* C39: search never returns a deleted entry: when search reads the rows
\* and returns, the id of every result is the id of a row that is in the
\* table at that moment, whether or not a build_index followed the delete
C39_NoDeletedResults ==
    [][(se_pc = "fetching" /\ se_pc' = "done") =>
          \A i \in 1..Len(se_results') :
             \E r \in knowledge_vectors' : r.id = se_results'[i].id]_vars

\* a search has returned a result although one of the neighbors the index
\* gave it is a row that was deleted and is still in the index
C39_Witness ==
    /\ se_pc = "done"
    /\ se_err = "none"
    /\ Len(se_results) >= 1
    /\ \E i \in 1..Len(neighbors) :
          /\ \A r \in knowledge_vectors : r.id # neighbors[i].id
          /\ \E p \in hnsw_index.points : p.id = neighbors[i].id
          /\ \A j \in 1..Len(se_results) : se_results[j].id # neighbors[i].id

====
